---- MODULE Spec2Model ----
(***************************************************************************)
(* A model of tree-gen: the runtime tree library (PointerMap, the          *)
(* two-pass well-formedness check, clone, (de)serialization entry points)  *)
(* as the C++ and the Python emitters generate it, and the streaming CBOR  *)
(* writer.                                                                 *)
(***************************************************************************)
EXTENDS Integers, Sequences, FiniteSets, TLC

(***************************************************************************)
(* Bounds of the model.                                                    *)
(***************************************************************************)
MaxNodes == 3
MaxList == 2
MaxOps == 6
MaxHandles == 3
MaxChunks == 4
MaxPtrs == 4
MaxIds == 2
MaxLinks == 2
MaxFields == 2
MaxDecls == 8

(***************************************************************************)
(* The schema the generated classes are modelled for: the directory tree   *)
(* of the examples, extended so that every edge kind and an error marker   *)
(* occur.  Each node type lists its fields in all_fields() order; a field  *)
(* has an edge kind and the set of leaf types it may refer to.             *)
(***************************************************************************)
Entries == {"Directory", "Mount", "File", "ErrEntry"}

Schema ==
    [ System    |-> << [name |-> "drives",   kind |-> "Many",    to |-> {"Drive"}] >>,
      Drive     |-> << [name |-> "root_dir", kind |-> "One",     to |-> {"Directory"}],
                       [name |-> "backup",   kind |-> "Maybe",   to |-> {"Directory"}] >>,
      Directory |-> << [name |-> "entries",  kind |-> "Any",     to |-> Entries] >>,
      Mount     |-> << [name |-> "target",   kind |-> "Link",    to |-> {"Directory", "Mount"}],
                       [name |-> "alt",      kind |-> "OptLink", to |-> {"Directory"}] >>,
      File      |-> << [name |-> "contents", kind |-> "Prim",    to |-> {}] >>,
      ErrEntry  |-> << >> ]

NodeTypes == DOMAIN Schema

\* NodeBuilder::mark_error: the node types flagged is_error_marker.
is_error_marker(t) == t = "ErrEntry"

PrimValues == {0, 1}
Langs == {"cpp", "py"}

\* The tree a program holds is rooted at the node it made first.
Roots == {1}

VARIABLES
    heap,        \* the nodes made so far: heap[n] = [typ, f], f[i] the i-th field
    res,         \* the outcome of the last operation applied to a tree
    stack,       \* Writer::stack, innermost handle last
    id_counter,  \* Writer::id_counter
    stream,      \* the bytes written to the Writer's stream
    handles,     \* the StructureWriter objects alive: [writer, id, kind]
    wres,        \* the last Writer operation: [op, h, err]
    nops,        \* Writer operations performed (bounds the run)
    nstarts,     \* calls of Writer::start that returned a MapWriter
    input,       \* the bytes handed to a cbor Reader, in the pieces they were put together from
    rres,        \* the last Reader operation: [op, arg, out]
    pmap,        \* a PointerMap: its map and enable_exceptions; order lists the pointers as first added
    pres,        \* the last PointerMap operation: [op, ptr, before, out]
    idmap,       \* an IdentifierMap: nodes by identifier, the (link, identifier) pairs, and what each link points to
    ires,        \* the last IdentifierMap operation: [op, lang, out]
    annotations, \* Annotatable::annotations of two objects: type |-> Anything
    ares,        \* the last Annotatable operation: [op, ob, T, before, out]
    specification, \* the generator's Specification: builders by node name, the directives, nodes
    gres,        \* the generator's run: [phase, raised, status, out]
    vres         \* the last visit by a generated Visitor: [node, overridden, calls]

tvars == <<heap, res>>
wvars == <<stack, id_counter, stream, handles, wres, nops, nstarts>>
rvars == <<input, rres>>
pvars == <<pmap, pres>>
ivars == <<idmap, ires>>
avars == <<annotations, ares>>
gvars == <<specification, gres, vres>>
vars == <<heap, res, stack, id_counter, stream, handles, wres, nops, nstarts,
          input, rres, pmap, pres, idmap, ires, annotations, ares, specification, gres, vres>>

(***************************************************************************)
(* Nodes and edges.                                                        *)
(***************************************************************************)
Nodes(h) == 1..Len(h)
FieldsOf(h, n) == Schema[h[n].typ]
Kind(h, n, i) == FieldsOf(h, n)[i].kind
IsSingle(k) == k \in {"One", "Maybe", "Link", "OptLink"}
IsList(k) == k \in {"Any", "Many"}
IsOwning(k) == k \in {"One", "Maybe", "Any", "Many"}
IsLink(k) == k \in {"Link", "OptLink"}

\* The value a field has after default construction: an empty edge, or the
\* primitive's initialize() value.
DefaultValue(k) == IF IsList(k) THEN << >> ELSE 0

NewNode(t) ==
    [typ |-> t, f |-> [i \in 1..Len(Schema[t]) |-> DefaultValue(Schema[t][i].kind)]]

\* The nodes an edge value refers to, in order.
EdgeTargets(k, v) ==
    IF IsList(k) THEN v
    ELSE IF IsSingle(k) /\ v # 0 THEN <<v>> ELSE << >>

RECURSIVE Flatten(_)
Flatten(ss) == IF ss = << >> THEN << >> ELSE Head(ss) \o Flatten(Tail(ss))

SeqToSet(s) == {s[i] : i \in 1..Len(s)}

(***************************************************************************)
(* Outcomes of an operation: it returns, or it raises.                     *)
(***************************************************************************)
Ok == [err |-> "none", why |-> "none"]
Raise(e, w) == [err |-> e, why |-> w]
NotWellFormed(w) == Raise("NotWellFormed", w)

(***************************************************************************)
(* PointerMap: node identity -> sequence number.                           *)
(***************************************************************************)
EmptyMap == [p \in {} |-> 0]

\* (size_t)-1, the answer for an unknown pointer when exceptions are off;
\* it is no sequence number (a map never holds 2^64 - 1 nodes).
NoSequence == -1

\* An add_raw that counts from one.
add_raw_one_based(map, ptr, enable_exceptions) ==
    IF ptr \in DOMAIN map
    THEN IF enable_exceptions
         THEN [thrown |-> TRUE, map |-> map, seq |-> 0]
         ELSE [thrown |-> FALSE, map |-> map, seq |-> map[ptr]]
    ELSE LET sequence == Cardinality(DOMAIN map) + 1
         IN  [thrown |-> FALSE, map |-> (ptr :> sequence) @@ map, seq |-> sequence]

\* A PointerMap::add_raw that reports a duplicate by returning its number.
add_raw_silent(map, ptr, enable_exceptions) ==
    IF ptr \in DOMAIN map
    THEN [thrown |-> FALSE, map |-> map, seq |-> map[ptr]]
    ELSE LET sequence == Cardinality(DOMAIN map)
         IN  [thrown |-> FALSE, map |-> (ptr :> sequence) @@ map, seq |-> sequence]

\* PointerMap::add_raw
add_raw(map, ptr, enable_exceptions) ==
    IF ptr \in DOMAIN map
    THEN IF enable_exceptions
         THEN [thrown |-> TRUE, map |-> map, seq |-> 0]
         ELSE [thrown |-> FALSE, map |-> map, seq |-> map[ptr]]
    ELSE LET sequence == Cardinality(DOMAIN map)
         IN  [thrown |-> FALSE, map |-> (ptr :> sequence) @@ map, seq |-> sequence]

\* A PointerMap::get_raw that answers (size_t)-1 for an unknown pointer.
get_raw_silent(map, ptr, enable_exceptions) ==
    IF ptr \notin DOMAIN map
    THEN [thrown |-> FALSE, seq |-> NoSequence]
    ELSE [thrown |-> FALSE, seq |-> map[ptr]]

\* PointerMap::get_raw
get_raw(map, ptr, enable_exceptions) ==
    IF ptr \notin DOMAIN map
    THEN IF enable_exceptions
         THEN [thrown |-> TRUE, seq |-> 0]
         ELSE [thrown |-> FALSE, seq |-> NoSequence]
    ELSE [thrown |-> FALSE, seq |-> map[ptr]]

(***************************************************************************)
(* The C++ runtime.  The generated node classes call find_reachable and    *)
(* check_complete on every edge field in all_fields() order; the edge      *)
(* classes (Maybe, One, Any, Many, OptLink, Link) decide what that does.   *)
(***************************************************************************)
\* Maybe/One/Any/Many::find_reachable register and descend into the nodes
\* they own; OptLink/Link::find_reachable do nothing.
cpp_edge_find_reachable(k, v) == IF IsOwning(k) THEN EdgeTargets(k, v) ELSE << >>

\* <Node>::find_reachable: the nodes its edge fields hand to the map, in
\* field order (primitive fields are skipped).
cpp_node_find_reachable(h, n) ==
    Flatten([i \in 1..Len(FieldsOf(h, n)) |->
        IF Kind(h, n, i) # "Prim"
        THEN cpp_edge_find_reachable(Kind(h, n, i), h[n].f[i])
        ELSE << >>])

\* The reachability pass from the nodes in `pending` (depth first, a node
\* is added before its fields are walked).  `fuel` stands for the call
\* stack: a walk that would never end overflows it.
RECURSIVE cpp_find_reachable(_, _, _, _)
cpp_find_reachable(h, pending, map, fuel) ==
    IF pending = << >> THEN [err |-> "none", why |-> "none", map |-> map]
    ELSE IF fuel = 0 THEN [err |-> "StackOverflow", why |-> "none", map |-> map]
    ELSE LET a == add_raw(map, Head(pending), TRUE)
         IN  IF a.thrown
             THEN [err |-> "NotWellFormed", why |-> "duplicate", map |-> map]
             ELSE cpp_find_reachable(
                    h, cpp_node_find_reachable(h, Head(pending)) \o Tail(pending),
                    a.map, fuel - 1)

\* <Edge>::check_complete for one edge value: the error it raises, or the
\* owned nodes whose check_complete it calls.
cpp_edge_check_complete(k, v, map) ==
    CASE k = "One" ->
            IF v = 0 THEN [r |-> NotWellFormed("missing"), enter |-> << >>]
            ELSE [r |-> Ok, enter |-> <<v>>]
      [] k = "Maybe" -> [r |-> Ok, enter |-> EdgeTargets(k, v)]
      [] k = "Any" -> [r |-> Ok, enter |-> v]
      [] k = "Many" ->
            IF v = << >> THEN [r |-> NotWellFormed("missing"), enter |-> << >>]
            ELSE [r |-> Ok, enter |-> v]
      [] k = "Link" ->
            IF v = 0 THEN [r |-> NotWellFormed("missing"), enter |-> << >>]
            ELSE IF get_raw(map, v, TRUE).thrown
                 THEN [r |-> NotWellFormed("link"), enter |-> << >>]
                 ELSE [r |-> Ok, enter |-> << >>]
      [] k = "OptLink" ->
            IF v # 0 /\ get_raw(map, v, TRUE).thrown
            THEN [r |-> NotWellFormed("link"), enter |-> << >>]
            ELSE [r |-> Ok, enter |-> << >>]
      [] OTHER -> [r |-> Ok, enter |-> << >>]

NodeItem(n) == [k |-> "node", n |-> n, i |-> 0]
NodeItems(ns) == [j \in 1..Len(ns) |-> NodeItem(ns[j])]
FieldItems(h, n) == [i \in 1..Len(FieldsOf(h, n)) |-> [k |-> "field", n |-> n, i |-> i]]

\* <Node>::check_complete, before it walks the fields: an error marker
\* throws.
cpp_node_check_complete(h, n) ==
    IF is_error_marker(h[n].typ) THEN NotWellFormed("error_marker") ELSE Ok

\* The completeness pass over the work still to do, in call order: a node
\* item is a pending <Node>::check_complete, a field item a pending
\* <Edge>::check_complete of that node's field.
RECURSIVE cpp_check_complete(_, _, _)
cpp_check_complete(h, items, map) ==
    IF items = << >> THEN Ok
    ELSE LET it == Head(items)
             rest == Tail(items)
         IN  IF it.k = "node"
             THEN LET r == cpp_node_check_complete(h, it.n)
                  IN  IF r.err # "none" THEN r
                      ELSE cpp_check_complete(h, FieldItems(h, it.n) \o rest, map)
             ELSE IF Kind(h, it.n, it.i) = "Prim"
             THEN cpp_check_complete(h, rest, map)
             ELSE LET e == cpp_edge_check_complete(Kind(h, it.n, it.i), h[it.n].f[it.i], map)
                  IN  IF e.r.err # "none" THEN e.r
                      ELSE cpp_check_complete(h, NodeItems(e.enter) \o rest, map)

\* Completable::check_well_formed on the One<T> edge that holds `root`: a
\* default PointerMap (which throws), then the two passes.
cpp_check_well_formed(h, root) ==
    LET fr == cpp_find_reachable(h, <<root>>, EmptyMap, Len(h) + 1)
    IN  IF fr.err # "none" THEN [err |-> fr.err, why |-> fr.why]
        ELSE cpp_check_complete(h, <<NodeItem(root)>>, fr.map)

\* Completable::is_well_formed: catches NotWellFormed only.
cpp_is_well_formed(h, root) ==
    LET r == cpp_check_well_formed(h, root)
    IN  IF r.err = "none" THEN [err |-> "none", value |-> TRUE]
        ELSE IF r.err = "NotWellFormed" THEN [err |-> "none", value |-> FALSE]
        ELSE [err |-> r.err, value |-> FALSE]

(***************************************************************************)
(* The Python runtime, as the Python emitter writes it.                    *)
(***************************************************************************)
\* <Node>.find_reachable: raises when id(self) is already in id_map, else
\* numbers self and walks the Maybe/One/Any/Many fields in order.
py_node_find_reachable(h, n) ==
    Flatten([i \in 1..Len(FieldsOf(h, n)) |->
        IF IsOwning(Kind(h, n, i)) THEN EdgeTargets(Kind(h, n, i), h[n].f[i]) ELSE << >>])

RECURSIVE py_find_reachable(_, _, _, _)
py_find_reachable(h, pending, id_map, fuel) ==
    IF pending = << >> THEN [err |-> "none", why |-> "none", map |-> id_map]
    ELSE IF fuel = 0 THEN [err |-> "RecursionError", why |-> "none", map |-> id_map]
    ELSE IF Head(pending) \in DOMAIN id_map
         THEN [err |-> "NotWellFormed", why |-> "duplicate", map |-> id_map]
         ELSE py_find_reachable(
                h, py_node_find_reachable(h, Head(pending)) \o Tail(pending),
                (Head(pending) :> Cardinality(DOMAIN id_map)) @@ id_map, fuel - 1)

\* Node.check_well_formed(self) takes no argument besides self: a call that
\* passes `nargs` more raises TypeError before the body runs.  The body is
\* self.check_complete().
RECURSIVE py_check_well_formed(_, _, _)
RECURSIVE py_check_complete(_, _, _, _)
RECURSIVE py_check_children(_, _)
py_check_well_formed(h, n, nargs) ==
    IF nargs # 0 THEN Raise("TypeError", "arguments")
    ELSE py_check_complete(h, n, FALSE, EmptyMap)

\* `for child in ...: child.check_well_formed(id_map)`, and the same call on
\* the one node of a populated One/Maybe.
py_check_children(h, children) ==
    IF children = << >> THEN Ok
    ELSE LET r == py_check_well_formed(h, Head(children), 1)
         IN  IF r.err # "none" THEN r ELSE py_check_children(h, Tail(children))

\* The statements <Node>.check_complete runs for field i.
py_field_check_complete(h, n, i, id_map) ==
    LET k == Kind(h, n, i)
        v == h[n].f[i]
    IN  CASE k = "One" /\ v = 0 -> NotWellFormed("missing")
          [] k = "Many" /\ v = << >> -> NotWellFormed("missing")
          [] k = "Link" /\ v = 0 -> NotWellFormed("missing")
          [] IsOwning(k) -> py_check_children(h, EdgeTargets(k, v))
          [] IsLink(k) ->
                IF v # 0 /\ v \notin DOMAIN id_map THEN NotWellFormed("link") ELSE Ok
          [] OTHER -> Ok

RECURSIVE py_fields_check_complete(_, _, _, _)
py_fields_check_complete(h, n, i, id_map) ==
    IF i > Len(FieldsOf(h, n)) THEN Ok
    ELSE LET r == py_field_check_complete(h, n, i, id_map)
         IN  IF r.err # "none" THEN r ELSE py_fields_check_complete(h, n, i + 1, id_map)

\* <Node>.check_complete(self, id_map=None): builds the map itself when
\* none is given, then checks the fields in order.
py_check_complete(h, n, given, id_map) ==
    LET fr == IF given THEN [err |-> "none", why |-> "none", map |-> id_map]
              ELSE py_find_reachable(h, <<n>>, EmptyMap, Len(h) + 1)
    IN  IF fr.err # "none" THEN [err |-> fr.err, why |-> fr.why]
        ELSE py_fields_check_complete(h, n, 1, fr.map)

\* A Node.is_well_formed with a bare `except:`.
py_is_well_formed_catch_all(h, root) ==
    LET r == py_check_well_formed(h, root, 0)
    IN  IF r.err = "none" THEN [err |-> "none", value |-> TRUE]
        ELSE [err |-> "none", value |-> FALSE]

\* Node.is_well_formed: except NotWellFormed -> False.
py_is_well_formed(h, root) ==
    LET r == py_check_well_formed(h, root, 0)
    IN  IF r.err = "none" THEN [err |-> "none", value |-> TRUE]
        ELSE IF r.err = "NotWellFormed" THEN [err |-> "none", value |-> FALSE]
        ELSE [err |-> r.err, value |-> FALSE]

\* Node.serialize up to the call of _serialize: find_reachable(), then
\* check_well_formed(id_map).
py_serialize(h, root) ==
    LET fr == py_find_reachable(h, <<root>>, EmptyMap, Len(h) + 1)
    IN  IF fr.err # "none" THEN [err |-> fr.err, why |-> fr.why]
        ELSE py_check_well_formed(h, root, 1)

(***************************************************************************)
(* The two runtimes side by side.                                          *)
(***************************************************************************)
check_well_formed(lang, h, root) ==
    IF lang = "cpp" THEN cpp_check_well_formed(h, root)
    ELSE py_check_well_formed(h, root, 0)

is_well_formed(lang, h, root) ==
    IF lang = "cpp" THEN cpp_is_well_formed(h, root) ELSE py_is_well_formed(h, root)

(***************************************************************************)
(* clone(): a deep copy along the owning edges; links and primitives are   *)
(* copied as they are.  The copies are allocated behind the nodes of `h`.  *)
(***************************************************************************)
\* The nodes that node n owns directly.
OwnedBy(h, n) ==
    UNION {SeqToSet(EdgeTargets(Kind(h, n, i), h[n].f[i])) :
             i \in {j \in 1..Len(FieldsOf(h, n)) : IsOwning(Kind(h, n, j))}}

RECURSIVE OwnReach(_, _)
OwnReach(h, S) ==
    LET T == S \cup UNION {OwnedBy(h, n) : n \in S}
    IN  IF T = S THEN S ELSE OwnReach(h, T)

\* Some node owned (transitively) by root owns itself transitively.
OwningCycle(h, root) ==
    \E n \in OwnReach(h, {root}) : n \in OwnReach(h, OwnedBy(h, n))

\* A clone that leaves every One edge of the copy empty.
clone_field_dropping(k, v, ids) ==
    IF IsList(k) THEN ids
    ELSE IF k = "Maybe" THEN (IF v = 0 THEN 0 ELSE ids[1])
    ELSE IF k = "One" THEN 0
    ELSE v

\* The value of a field of the copy: `node->f = this->f.clone()` for
\* Maybe/One/Any/Many, the copy constructor's value otherwise.
clone_field(k, v, ids) ==
    IF IsList(k) THEN ids
    ELSE IF IsOwning(k) THEN (IF v = 0 THEN 0 ELSE ids[1])
    ELSE v

RECURSIVE clone_node(_, _, _)
RECURSIVE clone_list(_, _, _)
RECURSIVE clone_fields(_, _, _, _)
clone_list(src, h, ns) ==
    IF ns = << >> THEN [heap |-> h, ids |-> << >>]
    ELSE LET c == clone_node(src, h, Head(ns))
             r == clone_list(src, c.heap, Tail(ns))
         IN  [heap |-> r.heap, ids |-> <<c.id>> \o r.ids]

clone_fields(src, h, n, i) ==
    IF i > Len(FieldsOf(src, n)) THEN [heap |-> h, f |-> << >>]
    ELSE LET k == Kind(src, n, i)
             v == src[n].f[i]
             c == IF IsOwning(k) THEN clone_list(src, h, EdgeTargets(k, v))
                  ELSE [heap |-> h, ids |-> << >>]
             r == clone_fields(src, c.heap, n, i + 1)
         IN  [heap |-> r.heap, f |-> <<clone_field(k, v, c.ids)>> \o r.f]

clone_node(src, h, n) ==
    LET fs == clone_fields(src, h, n, 1)
    IN  [heap |-> Append(fs.heap, [typ |-> src[n].typ, f |-> fs.f]),
         id |-> Len(fs.heap) + 1]

\* <Node>::clone() / <Node>.clone(): does not return on an owning cycle.
clone(lang, h, root) ==
    IF OwningCycle(h, root)
    THEN [err |-> IF lang = "cpp" THEN "StackOverflow" ELSE "RecursionError",
          heap |-> h, id |-> 0]
    ELSE LET c == clone_node(h, h, root)
         IN  [err |-> "none", heap |-> c.heap, id |-> c.id]

(***************************************************************************)
(* Serialization, as far as sequence numbers go: what each node of the     *)
(* tree writes under @i and what each link field writes under @l.          *)
(***************************************************************************)
Null == [null |-> TRUE, value |-> 0]
IntItem(v) == [null |-> FALSE, value |-> v]

\* The link fields of the nodes of the tree.
LinkFields(h, root) ==
    {s \in OwnReach(h, {root}) \X (1..2) :
        s[2] <= Len(FieldsOf(h, s[1])) /\ IsLink(Kind(h, s[1], s[2]))}

Serialized(err, i, l) == [err |-> err, i |-> i, l |-> l]

\* OptLink/Link::serialize: ids.get(target) under @l, null when empty.
cpp_link_serialize(h, n, i, ids) ==
    IF h[n].f[i] = 0 THEN Null ELSE IntItem(get_raw(ids, h[n].f[i], TRUE).seq)

\* Serialization of the tree in C++: a PointerMap filled by find_reachable,
\* the tree checked, then every node written.
cpp_serialize(h, root) ==
    LET fr == cpp_find_reachable(h, <<root>>, EmptyMap, Len(h) + 1)
        wf == cpp_check_well_formed(h, root)
    IN  IF wf.err # "none" THEN Serialized(wf.err, << >>, << >>)
        ELSE Serialized("none",
                        [n \in OwnReach(h, {root}) |-> get_raw(fr.map, n, TRUE).seq],
                        [s \in LinkFields(h, root) |-> cpp_link_serialize(h, s[1], s[2], fr.map)])

\* <Node>._serialize, a Link or OptLink field: field['@l'] = None, or
\* field['@l'] = id_map[id(self)].
py_link_serialize(h, n, i, id_map) ==
    IF h[n].f[i] = 0 THEN Null ELSE IntItem(id_map[n])

\* root._serialize(root.find_reachable())
py__serialize(h, root) ==
    LET fr == py_find_reachable(h, <<root>>, EmptyMap, Len(h) + 1)
    IN  IF fr.err # "none" THEN Serialized(fr.err, << >>, << >>)
        ELSE Serialized("none",
                        [n \in OwnReach(h, {root}) |-> fr.map[n]],
                        [s \in LinkFields(h, root) |-> py_link_serialize(h, s[1], s[2], fr.map)])

(***************************************************************************)
(* The streaming CBOR writer.  A writer state W holds Writer::stack (the   *)
(* innermost handle last), Writer::id_counter, the bytes written so far,   *)
(* and whether the operation under way has thrown.                         *)
(***************************************************************************)
Top(s) == s[Len(s)]
Front(s) == SubSeq(s, 1, Len(s) - 1)

\* A StructureWriter::stream that only asks for a writer.
stream_unchecked(W, h) == h.writer

\* StructureWriter::stream: the handle may write iff it has a writer and
\* its id is on top of the stack.
stream_ok(W, h) == h.writer /\ W.stack # << >> /\ Top(W.stack) = h.id

\* stream().write(bytes): throws for an inactive handle; nothing runs after
\* a throw.
sw_write(W, h, bytes) ==
    IF W.thrown THEN W
    ELSE IF ~stream_ok(W, h) THEN [W EXCEPT !.thrown = TRUE]
    ELSE [W EXCEPT !.stream = @ \o bytes]

write_null(W, h) == sw_write(W, h, <<246>>)
write_bool(W, h, value) == sw_write(W, h, IF value THEN <<245>> ELSE <<244>>)

\* int64_t and uint64_t values are kept as their eight bytes, most
\* significant first (int64_t in two's complement).  U64 and I64 give the
\* bytes of a number small enough to be written as a literal.
U64(n) == <<0, 0, 0, 0, (n \div 16777216) % 256, (n \div 65536) % 256,
            (n \div 256) % 256, n % 256>>
\* -1 - x, for x of either sign, complements every bit of x.
Not64(v) == [i \in 1..8 |-> 255 - v[i]]
I64(n) == IF n < 0 THEN Not64(U64(-1 - n)) ELSE U64(n)
IsNegative(v) == v[1] >= 128
\* value < 2^(8 * nbytes)
Below(value, nbytes) == \A i \in 1..(8 - nbytes) : value[i] = 0

\* A write_int without the nine-byte form.
int_bytes_truncating(int_value, major_in) ==
    LET major == IF IsNegative(int_value) THEN 1 ELSE major_in
        value == IF IsNegative(int_value) THEN Not64(int_value) ELSE int_value
        data0 == (major * 32) % 256
    IN  IF Below(value, 1) /\ value[8] < 24 THEN <<data0 + value[8]>>
        ELSE IF Below(value, 1) THEN <<data0 + 24, value[8]>>
        ELSE IF Below(value, 2) THEN <<data0 + 25, value[7], value[8]>>
        ELSE <<data0 + 26, value[5], value[6], value[7], value[8]>>

\* The bytes StructureWriter::write_int hands to the stream.
int_bytes(int_value, major_in) ==
    LET major == IF IsNegative(int_value) THEN 1 ELSE major_in
        value == IF IsNegative(int_value) THEN Not64(int_value) ELSE int_value
        data0 == (major * 32) % 256
    IN  IF Below(value, 1) /\ value[8] < 24 THEN <<data0 + value[8]>>
        ELSE IF Below(value, 1) THEN <<data0 + 24, value[8]>>
        ELSE IF Below(value, 2) THEN <<data0 + 25, value[7], value[8]>>
        ELSE IF Below(value, 4) THEN <<data0 + 26, value[5], value[6], value[7], value[8]>>
        ELSE <<data0 + 27>> \o value

write_int(W, h, int_value, major) == sw_write(W, h, int_bytes(int_value, major))

\* write_string: the length with major type 3, then the bytes.
write_string(W, h, value) == sw_write(write_int(W, h, U64(Len(value)), 3), h, value)

\* StructureWriter::StructureWriter(Writer&) followed by the header byte
\* the ArrayWriter (0x9F) or MapWriter (0xBF) constructor writes.
new_structure(W, kind) ==
    LET h == [writer |-> TRUE, id |-> W.id_counter, kind |-> kind, alive |-> TRUE]
        W1 == [W EXCEPT !.stack = Append(@, W.id_counter), !.id_counter = @ + 1]
    IN  [W |-> sw_write(W1, h, IF kind = "array" THEN <<159>> ELSE <<191>>), h |-> h]

\* write_array / write_map: stream() first, then the new structure.
write_structure(W, h, kind) ==
    IF W.thrown THEN [W |-> W, h |-> h]
    ELSE IF ~stream_ok(W, h) THEN [W |-> [W EXCEPT !.thrown = TRUE], h |-> h]
    ELSE new_structure(W, kind)

\* A close() that leaves its id on the stack.
close_no_pop(W, h) == sw_write(W, h, <<255>>)

\* StructureWriter::close: the break byte, then the pop.
close(W, h) ==
    LET W1 == sw_write(W, h, <<255>>)
    IN  IF W1.thrown THEN W1 ELSE [W1 EXCEPT !.stack = Front(@)]

\* The test of ~StructureWriter and of move assignment: close() only when
\* the handle is the active one.
close_if_active(W, h) ==
    IF h.writer /\ W.stack # << >> /\ Top(W.stack) = h.id THEN close(W, h) ELSE W

\* A Writer::start that does not look at the stack.
start_unchecked(W) == new_structure(W, "map")

\* Writer::start: throws when a structure is open, else a MapWriter.
start(W) ==
    IF W.stack # << >>
    THEN [W |-> [W EXCEPT !.thrown = TRUE], h |-> [writer |-> FALSE, id |-> 0, kind |-> "map", alive |-> FALSE]]
    ELSE new_structure(W, "map")

(***************************************************************************)
(* The CBOR Reader.  A Reader is a slice of the input: the data, the       *)
(* offset of its first byte and its length.  An operator that can throw    *)
(* answers a record whose err field is "none" when it returned.            *)
(***************************************************************************)
NoError == "none"
Slice(data, offset, length) ==
    [data |-> data, slice_offset |-> offset, slice_length |-> length]

\* Reader::read_at
read_at(R, offset) ==
    IF offset >= R.slice_length
    THEN [err |-> "past extents", byte |-> 0]
    ELSE IF R.slice_offset + offset >= Len(R.data)
    THEN [err |-> "out_of_range", byte |-> 0]
    ELSE [err |-> NoError, byte |-> R.data[R.slice_offset + offset + 1]]

\* n times value <<= 8; value |= read_at(offset++)
read_big_endian(R, offset, n) ==
    IF offset + n > R.slice_length \/ R.slice_offset + offset + n > Len(R.data)
    THEN [err |-> "past extents", value |-> U64(0), offset |-> offset]
    ELSE [err |-> NoError,
          value |-> [i \in 1..8 |-> IF i <= 8 - n THEN 0
                                    ELSE R.data[R.slice_offset + offset + i - (8 - n)]],
          offset |-> offset + n]

\* Reader::read_intlike: the value and the offset behind it.
read_intlike(R, info, offset) ==
    IF info < 24 THEN [err |-> NoError, value |-> U64(info), offset |-> offset]
    ELSE LET n == IF info < 25 THEN 1 ELSE IF info < 26 THEN 2
                  ELSE IF info < 27 THEN 4 ELSE 8
             r == read_big_endian(R, offset, n)
         IN  IF r.err = NoError /\ info >= 28
             THEN [r EXCEPT !.err = "illegal additional info"]
             ELSE r

\* An as_int that hands out whatever the eight bytes hold.
as_int_unranged(R) ==
    LET initial == read_at(R, 0)
        type == initial.byte \div 32
        info == initial.byte % 32
        r == read_intlike(R, info, 1)
    IN  IF initial.err # NoError THEN [err |-> initial.err, value |-> U64(0)]
        ELSE IF type >= 2 THEN [err |-> "unexpected structure", value |-> U64(0)]
        ELSE IF r.err # NoError THEN [err |-> r.err, value |-> U64(0)]
        ELSE IF type = 0 THEN [err |-> NoError, value |-> r.value]
        ELSE [err |-> NoError, value |-> Not64(r.value)]

\* Reader::as_int
as_int(R) ==
    LET initial == read_at(R, 0)
        type == initial.byte \div 32
        info == initial.byte % 32
        r == read_intlike(R, info, 1)
    IN  IF initial.err # NoError THEN [err |-> initial.err, value |-> U64(0)]
        ELSE IF type >= 2 THEN [err |-> "unexpected structure", value |-> U64(0)]
        ELSE IF r.err # NoError THEN [err |-> r.err, value |-> U64(0)]
        ELSE IF r.value[1] >= 128 THEN [err |-> "out of int64 range", value |-> U64(0)]
        ELSE IF type = 0 THEN [err |-> NoError, value |-> r.value]
        ELSE [err |-> NoError, value |-> Not64(r.value)]

\* A uint64_t below 2^24 as a number; every input is far shorter than that.
Small(value) == Below(value, 3)
ToNat(value) == value[6] * 65536 + value[7] * 256 + value[8]

\* An offset beyond the slice can only make the next read_at throw or fail
\* the final comparison, so all of them are kept as one value.
Past(R) == R.slice_length + 1
Clip(R, offset) == IF offset > R.slice_length THEN Past(R) ELSE offset

\* offset += length in size_t arithmetic: the sum modulo 2^64.  A length
\* of 2^64 - k moves the offset back by k.
add_length(R, offset, length) ==
    IF Small(length) THEN Clip(R, offset + ToNat(length))
    ELSE IF Small(Not64(length)) /\ ToNat(Not64(length)) + 1 <= offset
    THEN offset - (ToNat(Not64(length)) + 1)
    ELSE Past(R)

\* The item whose data starts at offset and is length bytes long ends
\* behind the last byte of the slice.
Overruns(R, offset, length) ==
    ~(Small(length) /\ offset + ToNat(length) <= R.slice_length)

\* Loop counts: a definite count, a count too large to matter, no count.
Indefinite == -1
Huge == -2
Count(value) == IF Small(value) THEN ToNat(value) ELSE Huge

\* What check_and_seek answers: whether it threw (err "hang": it never
\* returns), the offset it left, and (not in the code) whether it walked
\* over an item that overruns the slice.
Seek(err, offset, past) == [err |-> err, offset |-> offset, past |-> past]

RECURSIVE check_and_seek(_, _)
RECURSIVE check_chunks(_, _, _, _, _)
RECURSIVE check_items(_, _, _, _, _, _)

\* check_and_seek, major types 2 and 3 with info 31: the loop over the
\* chunks.  seen holds the offsets the loop condition was evaluated at: an
\* offset that comes back is a loop that never ends.
check_chunks(R, type, offset, seen, past) ==
    LET sub_initial == read_at(R, offset)
        r == read_intlike(R, sub_initial.byte % 32, offset + 1)
        next == add_length(R, r.offset, r.value)
        over == past \/ Overruns(R, r.offset, r.value)
    IN  IF sub_initial.err # NoError THEN Seek(sub_initial.err, offset, past)
        ELSE IF sub_initial.byte = 255 THEN Seek(NoError, offset + 1, past)
        ELSE IF sub_initial.byte \div 32 # type
        THEN Seek("illegal indefinite-length string component", offset, past)
        ELSE IF r.err # NoError THEN Seek(r.err, offset, past)
        ELSE IF next \in seen THEN Seek("hang", next, over)
        ELSE check_chunks(R, type, next, seen \cup {next}, over)

\* check_and_seek, major types 4 and 5: the loop over the items, size the
\* items still to come.
check_items(R, type, offset, size, seen, past) ==
    LET at == read_at(R, offset)
        key == IF type = 5 THEN check_and_seek(R, offset) ELSE Seek(NoError, offset, FALSE)
        val == IF key.err = NoError THEN check_and_seek(R, key.offset) ELSE key
        over == past \/ key.past \/ val.past
    IN  IF size = 0 THEN Seek(NoError, offset, past)
        ELSE IF size = Indefinite /\ at.err # NoError THEN Seek(at.err, offset, past)
        ELSE IF size = Indefinite /\ at.byte = 255 THEN Seek(NoError, offset + 1, past)
        ELSE IF val.err # NoError THEN Seek(val.err, val.offset, over)
        ELSE IF size < 0 /\ val.offset \in seen THEN Seek("hang", val.offset, over)
        ELSE check_items(R, type, val.offset, IF size < 0 THEN size ELSE size - 1,
                         seen \cup {val.offset}, over)

\* Reader::check_and_seek
check_and_seek(R, offset) ==
    LET initial == read_at(R, offset)
        type == initial.byte \div 32
        info == initial.byte % 32
        r == read_intlike(R, info, offset + 1)
    IN  IF initial.err # NoError THEN Seek(initial.err, offset, FALSE)
        ELSE IF type <= 1 THEN Seek(r.err, r.offset, FALSE)
        ELSE IF type <= 3 THEN
            IF info = 31 THEN check_chunks(R, type, offset + 1, {offset + 1}, FALSE)
            ELSE IF r.err # NoError THEN Seek(r.err, r.offset, FALSE)
            ELSE Seek(NoError, add_length(R, r.offset, r.value),
                      Overruns(R, r.offset, r.value))
        ELSE IF type <= 5 THEN
            IF info = 31 THEN check_items(R, type, offset + 1, Indefinite, {offset + 1}, FALSE)
            ELSE IF r.err # NoError THEN Seek(r.err, r.offset, FALSE)
            ELSE check_items(R, type, r.offset, Count(r.value), {r.offset}, FALSE)
        ELSE IF type = 6 THEN
            IF r.err # NoError THEN Seek(r.err, r.offset, FALSE)
            ELSE check_and_seek(R, r.offset)
        ELSE IF info \in {20, 21, 22} THEN Seek(NoError, offset + 1, FALSE)
        ELSE IF info = 23 THEN Seek("undefined value is not supported", offset + 1, FALSE)
        ELSE IF info = 25 THEN Seek("half-precision float is not supported", offset + 1, FALSE)
        ELSE IF info = 26 THEN Seek("single-precision float is not supported", offset + 1, FALSE)
        ELSE IF info = 27 THEN Seek(NoError, Clip(R, offset + 9), offset + 9 > R.slice_length)
        ELSE IF info = 31 THEN Seek("unexpected break", offset + 1, FALSE)
        ELSE Seek("unknown type code", offset + 1, FALSE)

\* Reader::check
check(R) ==
    LET r == check_and_seek(R, 0)
    IN  IF r.err = NoError /\ r.offset # R.slice_length
        THEN [r EXCEPT !.err = "garbage at end of outer object or multiple objects"]
        ELSE r

\* Reader::Reader(std::string &&data): the error if it threw, else the
\* Reader.
Reader(data) ==
    LET R == Slice(data, 0, Len(data))
    IN  IF Len(data) = 0 THEN [err |-> "zero-size object", past |-> FALSE, R |-> R]
        ELSE [err |-> check(R).err, past |-> check(R).past, R |-> R]

\* Reader::Reader(const Reader &parent, size_t offs, size_t len), which
\* Reader::slice calls.  A len below zero stands for the size_t the
\* subtraction of a larger offset wraps to: more than the data holds.
slice(R, offs, len) ==
    LET length == IF len < 0 THEN Len(R.data) + 1 ELSE len
        S == Slice(R.data, R.slice_offset + offs, length)
        initial == read_at(S, 0)
        tag == read_intlike(S, initial.byte % 32, 1)
    IN  IF offs + len > R.slice_length THEN [err |-> "slice past extents", R |-> S]
        ELSE IF length = 0 THEN [err |-> "empty slice", R |-> S]
        ELSE IF initial.err # NoError THEN [err |-> initial.err, R |-> S]
        ELSE IF initial.byte \div 32 # 6 THEN [err |-> NoError, R |-> S]
        ELSE IF tag.err # NoError THEN [err |-> tag.err, R |-> S]
        ELSE IF length - tag.offset = 0 THEN [err |-> "semantic tag has no value", R |-> S]
        ELSE [err |-> NoError,
              R |-> Slice(R.data, S.slice_offset + tag.offset, length - tag.offset)]

\* The bytes a Reader spans.
Content(R) == SubSeq(R.data, R.slice_offset + 1, R.slice_offset + R.slice_length)

is_null(R) == read_at(R, 0).byte = 246
is_bool(R) == read_at(R, 0).byte \in {244, 245}
is_int(R) == read_at(R, 0).byte < 64
is_float(R) == read_at(R, 0).byte = 251
is_string(R) == read_at(R, 0).byte \div 32 = 3
is_binary(R) == read_at(R, 0).byte \div 32 = 2
is_array(R) == read_at(R, 0).byte \div 32 = 4
is_map(R) == read_at(R, 0).byte \div 32 = 5

Unexpected == "unexpected CBOR structure"
as_null(R) == [err |-> IF is_null(R) THEN NoError ELSE Unexpected]
as_bool(R) ==
    IF is_bool(R) THEN [err |-> NoError, value |-> read_at(R, 0).byte = 245]
    ELSE [err |-> Unexpected, value |-> FALSE]
as_float(R) ==
    LET r == read_intlike(R, 27, 1)
    IN  IF ~is_float(R) THEN [err |-> Unexpected, value |-> U64(0)]
        ELSE [err |-> r.err, value |-> r.value]

RECURSIVE read_stringlike(_, _)
RECURSIVE read_string_chunks(_, _, _)

\* Reader::read_stringlike, info 31: the chunks up to the break.
read_string_chunks(R, offset, s) ==
    LET at == read_at(R, offset)
        chunk == read_stringlike(R, offset)
    IN  IF at.err # NoError THEN [err |-> at.err, offset |-> offset, s |-> s]
        ELSE IF at.byte = 255 THEN [err |-> NoError, offset |-> offset + 1, s |-> s]
        ELSE IF chunk.err # NoError THEN chunk
        ELSE read_string_chunks(R, chunk.offset, s \o chunk.s)

\* Reader::read_stringlike.  A length that wraps length + offset below the
\* slice length passes the test and s.write reads far outside the data.
read_stringlike(R, offset) ==
    LET initial == read_at(R, offset)
        info == initial.byte % 32
        r == read_intlike(R, info, offset + 1)
        first == R.slice_offset + r.offset
    IN  IF initial.err # NoError THEN [err |-> initial.err, offset |-> offset, s |-> << >>]
        ELSE IF info = 31 THEN read_string_chunks(R, offset + 1, << >>)
        ELSE IF r.err # NoError THEN [err |-> r.err, offset |-> offset, s |-> << >>]
        ELSE IF add_length(R, r.offset, r.value) > R.slice_length
        THEN [err |-> "string read past end of slice", offset |-> offset, s |-> << >>]
        ELSE IF ~Small(r.value)
        THEN [err |-> "undefined behaviour", offset |-> offset, s |-> << >>]
        ELSE [err |-> NoError, offset |-> r.offset + ToNat(r.value),
              s |-> SubSeq(R.data, first + 1, first + ToNat(r.value))]

as_string(R) ==
    LET r == read_stringlike(R, 0)
    IN  IF ~is_string(R) THEN [err |-> Unexpected, value |-> << >>]
        ELSE [err |-> r.err, value |-> r.s]
as_binary(R) ==
    LET r == read_stringlike(R, 0)
    IN  IF ~is_binary(R) THEN [err |-> Unexpected, value |-> << >>]
        ELSE [err |-> r.err, value |-> r.s]

\* An item of an ArrayReader or a MapReader: the Reader, and (not in the
\* code) the bytes of the item it was sliced from.
Item(R, first, last, S) ==
    [raw |-> SubSeq(R.data, R.slice_offset + first + 1, R.slice_offset + last), R |-> S]

RECURSIVE read_array_items(_, _, _, _)
\* Reader::read_array_item: the item that ends at offset_end is sliced and
\* pushed, and the loop of as_array goes on behind it.
read_array_item(R, offset, offset_end, size, ar, S) ==
    IF S.err # NoError THEN [err |-> S.err, value |-> ar]
    ELSE read_array_items(R, offset_end, IF size < 0 THEN size ELSE size - 1,
                          Append(ar, Item(R, offset, offset_end, S.R)))

\* Reader::read_array_item: check_and_seek over the item at offset.
seek_array_item(R, offset, size, ar, item) ==
    IF item.err # NoError THEN [err |-> item.err, value |-> ar]
    ELSE read_array_item(R, offset, item.offset, size, ar,
                         slice(R, offset, item.offset - offset))

\* Reader::as_array and Reader::as_map: the test of the loop for a
\* container that ends at a break.
at_break(at, size, value) ==
    IF size # Indefinite THEN [stop |-> FALSE, out |-> [err |-> NoError, value |-> value]]
    ELSE IF at.err # NoError THEN [stop |-> TRUE, out |-> [err |-> at.err, value |-> value]]
    ELSE [stop |-> at.byte = 255, out |-> [err |-> NoError, value |-> value]]

\* Reader::as_array: the loop around read_array_item.
read_array_items(R, offset, size, ar) ==
    IF size = 0 THEN [err |-> NoError, value |-> ar]
    ELSE IF at_break(read_at(R, offset), size, ar).stop
    THEN at_break(read_at(R, offset), size, ar).out
    ELSE seek_array_item(R, offset, size, ar, check_and_seek(R, offset))

as_array(R) ==
    LET info == read_at(R, 0).byte % 32
        r == read_intlike(R, info, 1)
    IN  IF ~is_array(R) THEN [err |-> Unexpected, value |-> << >>]
        ELSE IF info = 31 THEN read_array_items(R, 1, Indefinite, << >>)
        ELSE IF r.err # NoError THEN [err |-> r.err, value |-> << >>]
        ELSE read_array_items(R, r.offset, Count(r.value), << >>)

\* An insert that replaces the value of a key already present.
map_insert_or_assign(map, key, value) ==
    [k \in DOMAIN map \cup {key} |-> IF k = key THEN value ELSE map[k]]

\* map.insert(std::make_pair(key, value)): a key already present keeps
\* its value.
map_insert(map, key, value) ==
    IF key \in DOMAIN map THEN map
    ELSE [k \in DOMAIN map \cup {key} |-> IF k = key THEN value ELSE map[k]]

NoItems == [k \in {} |-> << >>]

RECURSIVE read_map_items(_, _, _, _)
\* Reader::read_map_item: the pair of the key name and the slice S of the
\* value is inserted, and the loop of as_map goes on behind the value.
insert_map_item(R, key_end, data_end, size, map, name, S) ==
    IF name.err # NoError THEN [err |-> name.err, value |-> map]
    ELSE IF S.err # NoError THEN [err |-> S.err, value |-> map]
    ELSE read_map_items(R, data_end, IF size < 0 THEN size ELSE size - 1,
                        map_insert(map, name.value, Item(R, key_end, data_end, S.R)))

\* Reader::read_map_item: the slice K of the key is read as a string.
read_map_item(R, key_end, data_end, size, map, K) ==
    IF K.err # NoError THEN [err |-> K.err, value |-> map]
    ELSE insert_map_item(R, key_end, data_end, size, map, as_string(K.R),
                         slice(R, key_end, data_end - key_end))

\* Reader::read_map_item: check_and_seek over the value behind the key.
seek_map_value(R, offset, key_end, size, map, data) ==
    IF data.err # NoError THEN [err |-> data.err, value |-> map]
    ELSE read_map_item(R, key_end, data.offset, size, map,
                       slice(R, offset, key_end - offset))

\* Reader::read_map_item: check_and_seek over the key at offset.
seek_map_key(R, offset, size, map, key) ==
    IF key.err # NoError THEN [err |-> key.err, value |-> map]
    ELSE seek_map_value(R, offset, key.offset, size, map, check_and_seek(R, key.offset))

\* Reader::as_map: the loop around read_map_item.
read_map_items(R, offset, size, map) ==
    IF size = 0 THEN [err |-> NoError, value |-> map]
    ELSE IF at_break(read_at(R, offset), size, map).stop
    THEN at_break(read_at(R, offset), size, map).out
    ELSE seek_map_key(R, offset, size, map, check_and_seek(R, offset))

as_map(R) ==
    LET info == read_at(R, 0).byte % 32
        r == read_intlike(R, info, 1)
    IN  IF ~is_map(R) THEN [err |-> Unexpected, value |-> NoItems]
        ELSE IF info = 31 THEN read_map_items(R, 1, Indefinite, NoItems)
        ELSE IF r.err # NoError THEN [err |-> r.err, value |-> NoItems]
        ELSE read_map_items(R, r.offset, Count(r.value), NoItems)

\* The items of an ArrayReader or a MapReader, each by Reader::get_contents.
Contents(r) == [err |-> r.err, value |-> [i \in DOMAIN r.value |-> Content(r.value[i].R)]]

\* ArrayReader::at and MapReader::at: std::vector::at, std::map::at.
item_at(r, i) ==
    IF r.err = NoError /\ i \in DOMAIN r.value
    THEN [err |-> NoError, item |-> r.value[i]]
    ELSE [err |-> "out_of_range", item |-> Item(Slice(<< >>, 0, 0), 0, 0, Slice(<< >>, 0, 0))]

\* What a caller can learn from one Reader: every is_ and every as_
\* accessor; items of arrays and maps are told by the bytes they span.
Answers(R) ==
    [ is_null |-> is_null(R), is_bool |-> is_bool(R), is_int |-> is_int(R),
      is_float |-> is_float(R), is_string |-> is_string(R), is_binary |-> is_binary(R),
      is_array |-> is_array(R), is_map |-> is_map(R),
      as_null |-> as_null(R), as_bool |-> as_bool(R), as_int |-> as_int(R),
      as_float |-> as_float(R), as_string |-> as_string(R), as_binary |-> as_binary(R),
      as_array |-> Contents(as_array(R)), as_map |-> Contents(as_map(R)) ]

(***************************************************************************)
(* The integer headers of the generated Python module.                     *)
(***************************************************************************)
\* struct.unpack of cbor[offset:offset+n], after the test on info.
py_unpack(cbor, offset, n) ==
    IF offset + n > Len(cbor)
    THEN [err |-> "struct.error", value |-> U64(0), offset |-> offset]
    ELSE [err |-> NoError,
          value |-> [i \in 1..8 |-> IF i <= 8 - n THEN 0 ELSE cbor[offset + i - (8 - n)]],
          offset |-> offset + n]

\* _cbor_read_intlike(cbor, offset, info): the value and the offset behind
\* it.
py_cbor_read_intlike(cbor, offset, info) ==
    IF info < 24 THEN [err |-> NoError, value |-> U64(info), offset |-> offset]
    ELSE IF info = 25 THEN
        IF offset >= Len(cbor) THEN [err |-> "IndexError", value |-> U64(0), offset |-> offset]
        ELSE py_unpack(cbor, offset, 1)
    ELSE IF info = 26 THEN py_unpack(cbor, offset, 2)
    ELSE IF info = 27 THEN py_unpack(cbor, offset, 4)
    ELSE IF info = 28 THEN py_unpack(cbor, offset, 8)
    ELSE [err |-> "ValueError", value |-> U64(0), offset |-> offset]

\* _cbor_write_intlike(value, major), for the values an int64_t holds.
py_cbor_write_intlike(int_value, major_in) ==
    LET major == IF IsNegative(int_value) THEN 1 ELSE major_in
        value == IF IsNegative(int_value) THEN Not64(int_value) ELSE int_value
        initial == major * 32
    IN  IF Below(value, 1) /\ value[8] < 24 THEN <<initial + value[8]>>
        ELSE IF Below(value, 1) THEN <<initial + 24, value[8]>>
        ELSE IF Below(value, 2) THEN <<initial + 25, value[7], value[8]>>
        ELSE IF Below(value, 4) THEN <<initial + 26, value[5], value[6], value[7], value[8]>>
        ELSE <<initial + 27>> \o value

(***************************************************************************)
(* Annotatable: annotations keyed by their C++ type.                       *)
(***************************************************************************)
\* The types of the annotations and the objects of each type.
AnnotationTypes == {"TestA", "TestB"}
AnnotationValues == {1, 2}
Annotatables == {1, 2}

\* Anything::make<T>(ob): the object and its type_index.
make(T, ob) == [type |-> T, data |-> ob]

\* Anything::get_mut<T> / get_const<T>
get_const(anything, T) ==
    IF T # anything.type THEN [err |-> "bad_cast", data |-> 0]
    ELSE [err |-> NoError, data |-> anything.data]

\* std::unordered_map<std::type_index, std::shared_ptr<Anything>>, empty.
NoAnnotations == [T \in {} |-> make("", 0)]

\* An insert that leaves an annotation of the type in place.
set_annotation_insert(a, T, ob) ==
    IF T \in DOMAIN a THEN a
    ELSE [t \in DOMAIN a \cup {T} |-> IF t = T THEN make(T, ob) ELSE a[t]]

\* Annotatable::set_annotation<T>(ob): annotations[typeid(T)] = make<T>(ob)
set_annotation(a, T, ob) ==
    [t \in DOMAIN a \cup {T} |-> IF t = T THEN make(T, ob) ELSE a[t]]

\* Annotatable::has_annotation<T>(): annotations.count(typeid(T))
has_annotation(a, T) == Cardinality(DOMAIN a \cap {T}) # 0

\* Annotatable::get_annotation_ptr<T>(): nullptr on std::out_of_range.
get_annotation_ptr(a, T) ==
    IF T \notin DOMAIN a THEN [err |-> NoError, null |-> TRUE, data |-> 0]
    ELSE [err |-> get_const(a[T], T).err, null |-> FALSE, data |-> get_const(a[T], T).data]

\* Annotatable::get_annotation<T>()
get_annotation(a, T) ==
    IF get_annotation_ptr(a, T).err # NoError
    THEN [err |-> get_annotation_ptr(a, T).err, data |-> 0]
    ELSE IF ~get_annotation_ptr(a, T).null
    THEN [err |-> NoError, data |-> get_annotation_ptr(a, T).data]
    ELSE [err |-> "object does not have an annotation of this type", data |-> 0]

\* Annotatable::erase_annotation<T>()
erase_annotation(a, T) == [t \in DOMAIN a \ {T} |-> a[t]]

\* Annotatable::copy_annotation<T>(src)
copy_annotation(a, src, T) ==
    IF ~get_annotation_ptr(src, T).null
    THEN set_annotation(a, T, get_annotation_ptr(src, T).data)
    ELSE erase_annotation(a, T)

\* No Annotatable operation has run.
NoAnnotated == [op |-> "none", ob |-> 0, T |-> "", x |-> 0,
                before |-> NoAnnotations, out |-> [err |-> NoError]]

(***************************************************************************)
(* The generator: the Specification the parser fills by its reductions,    *)
(* Specification::build, and the field orders the emitters use.            *)
(***************************************************************************)
\* NodeBuilder::NodeBuilder, and derive_from when the node is declared
\* inside another.
NodeBuilder(name, parent) ==
    [snake_case_name |-> name, parent |-> parent, fields |-> << >>,
     order |-> << >>, is_error_marker |-> FALSE]

\* NodeBuilder::with_child
with_child(node, type, node_name, name) ==
    [node EXCEPT !.fields = Append(@, [name |-> name, type |-> type, prim_type |-> node_name,
                                       ext_type |-> type, node_type |-> ""])]

\* NodeBuilder::with_prim
with_prim(node, prim, name, type) ==
    [node EXCEPT !.fields = Append(@, [name |-> name, type |-> "Prim", prim_type |-> prim,
                                       ext_type |-> type, node_type |-> ""])]

\* NodeBuilder::with_order
with_order(node, order) == [node EXCEPT !.order = order]

\* A Specification before the parser has reduced anything.
NewSpecification ==
    [builders |-> [n \in {} |-> NodeBuilder("", "")], tree_namespace |-> "",
     support_namespace |-> "", initialize_function |-> "", nodes |-> << >>]

\* What a Specification method did: the exception it threw, if any, and the
\* Specification it left.
Did(err, spec) == [err |-> err, spec |-> spec]

\* Specification::set_tree_namespace
set_tree_namespace(spec, name_space) ==
    IF spec.tree_namespace # "" THEN Did("duplicate tree namespace declaration", spec)
    ELSE Did(NoError, [spec EXCEPT !.tree_namespace = name_space])

\* Specification::set_support_namespace
set_support_namespace(spec, name_space) ==
    IF spec.support_namespace # "" THEN Did("duplicate tree namespace declaration", spec)
    ELSE Did(NoError, [spec EXCEPT !.support_namespace = name_space])

\* Specification::set_initialize_function
set_initialize_function(spec, init_fn) ==
    IF spec.initialize_function # ""
    THEN Did("duplicate initialization function declaration", spec)
    ELSE Did(NoError, [spec EXCEPT !.initialize_function = init_fn])

\* Specification::add_node
add_node(spec, node_builder) ==
    IF node_builder.snake_case_name \in DOMAIN spec.builders
    THEN Did("duplicate node name", spec)
    ELSE Did(NoError,
             [spec EXCEPT !.builders =
                 [n \in DOMAIN @ \cup {node_builder.snake_case_name} |->
                     IF n = node_builder.snake_case_name THEN node_builder ELSE @[n]]])

\* Specification::build, the loop body: the field with its node resolved.
resolve(child) ==
    IF child.type = "Prim" THEN child
    ELSE [child EXCEPT !.prim_type = "", !.node_type = child.prim_type]

\* The fields of the Specification that name a node never declared.
undefined_nodes(spec) ==
    {<<n, i>> \in (DOMAIN spec.builders) \X (1..MaxFields) :
        /\ i <= Len(spec.builders[n].fields)
        /\ spec.builders[n].fields[i].type # "Prim"
        /\ spec.builders[n].fields[i].prim_type \notin DOMAIN spec.builders}

\* An enumeration of a set of node names, as the iteration over builders.
RECURSIVE in_order(_)
in_order(S) == IF S = {} THEN << >> ELSE LET n == CHOOSE n \in S : TRUE IN <<n>> \o in_order(S \ {n})

\* A build that never looks the nodes of the fields up.
build_unresolved(spec) ==
    IF spec.initialize_function = "" THEN Did("initialization function not specified", spec)
    ELSE Did(NoError, [spec EXCEPT !.nodes = in_order(DOMAIN spec.builders)])

\* Specification::build.  When it throws, main returns and the partly
\* resolved Specification is not looked at again.
build(spec) ==
    IF spec.initialize_function = "" THEN Did("initialization function not specified", spec)
    ELSE IF undefined_nodes(spec) # {}
    THEN Did("use of undefined node", spec)
    ELSE Did(NoError,
             [spec EXCEPT
                 !.support_namespace = IF @ = "" THEN "::tree" ELSE @,
                 !.builders = [n \in DOMAIN @ |->
                     [@[n] EXCEPT !.fields = [i \in DOMAIN @ |-> resolve(@[i])]]],
                 !.nodes = in_order(DOMAIN spec.builders)])

\* Node::all_fields, the loop over order: each name takes the first of the
\* children with that name out of them.
RECURSIVE reorder(_, _, _)
reorder(order, children, reordered) ==
    IF order = << >> THEN [err |-> NoError, fields |-> reordered \o children]
    ELSE IF \A i \in DOMAIN children : children[i].name # Head(order)
    THEN [err |-> "Unknown field in field order", fields |-> << >>]
    ELSE LET it == CHOOSE i \in DOMAIN children :
                       /\ children[i].name = Head(order)
                       /\ \A j \in 1..(i - 1) : children[j].name # Head(order)
         IN  reorder(Tail(order),
                     SubSeq(children, 1, it - 1) \o SubSeq(children, it + 1, Len(children)),
                     Append(reordered, children[it]))

\* Node::all_fields that never looks at order.
RECURSIVE all_fields_declared(_, _)
all_fields_declared(builders, name) ==
    IF builders[name].parent = "" THEN [err |-> NoError, fields |-> builders[name].fields]
    ELSE [err |-> NoError,
          fields |-> builders[name].fields \o all_fields_declared(builders, builders[name].parent).fields]

\* Node::all_fields: the fields of the node, then those of its parent, with
\* order applied.
RECURSIVE all_fields(_, _)
all_fields(builders, name) ==
    LET node == builders[name]
        from_parent == IF node.parent = "" THEN [err |-> NoError, fields |-> << >>]
                       ELSE all_fields(builders, node.parent)
    IN  IF from_parent.err # NoError THEN from_parent
        ELSE IF node.order = << >>
        THEN [err |-> NoError, fields |-> node.fields \o from_parent.fields]
        ELSE reorder(node.order, node.fields \o from_parent.fields, << >>)

\* The names of fields, in their order.
names(fields) == [i \in DOMAIN fields |-> fields[i].name]

\* The fields whose node the RecursiveVisitor visits.
Visited(fields) ==
    SelectSeq(fields, LAMBDA field : field.node_type # "" /\ field.type \notin {"Link", "OptLink"})

\* generate_recursive_visitor_class: RecursiveVisitor::visit_<node> calls
\* the visit of the parent, then visits the fields the node declares.
RECURSIVE recursive_visit(_, _)
recursive_visit(builders, name) ==
    (IF builders[name].parent = "" THEN << >>
     ELSE recursive_visit(builders, builders[name].parent))
    \o Visited(builders[name].fields)

(***************************************************************************)
(* The generated Dumper.  What it writes is kept as the lines that matter  *)
(* for how far it goes: the opening line of a node, the line of a link     *)
(* that is not empty, and the ellipsis; each with the value in_link had.   *)
(***************************************************************************)
\* No chain of calls that ends is deeper: the nodes on a path of owning
\* edges are distinct, and so are those inside the one link followed.
MaxDepth == 2 * MaxNodes + 1

Line(what, node, in_link) == [what |-> what, node |-> node, in_link |-> in_link]

RECURSIVE Dumper_visit(_, _, _, _)

\* A Dumper that follows every link.
dump_attribute_following(h, k, v, in_link, depth) ==
    IF k = "Prim" THEN << >>
    ELSE IF IsList(k)
    THEN Flatten([j \in 1..Len(v) |-> Dumper_visit(h, v[j], in_link, depth - 1)])
    ELSE IF v = 0 THEN << >>
    ELSE IF IsLink(k) THEN <<Line("-->", v, in_link)>> \o Dumper_visit(h, v, TRUE, depth - 1)
    ELSE Dumper_visit(h, v, in_link, depth - 1)

\* Dumper::visit_<node>, the statements written for one attribute.  An
\* empty edge prints !MISSING, - or [] and a primitive its value.
dump_attribute(h, k, v, in_link, depth) ==
    IF k = "Prim" THEN << >>
    ELSE IF IsList(k)
    THEN Flatten([j \in 1..Len(v) |-> Dumper_visit(h, v[j], in_link, depth - 1)])
    ELSE IF v = 0 THEN << >>
    ELSE IF IsLink(k)
    THEN <<Line("-->", v, in_link)>> \o
         (IF ~in_link THEN Dumper_visit(h, v, TRUE, depth - 1)
          ELSE <<Line("...", v, in_link)>>)
    ELSE Dumper_visit(h, v, in_link, depth - 1)

\* Dumper::visit_<node>.  A chain of calls deeper than MaxDepth has come
\* back to a node it is inside of and does not end: the line "unfinished"
\* stands for it.
Dumper_visit(h, n, in_link, depth) ==
    IF depth = 0 THEN <<Line("unfinished", n, in_link)>>
    ELSE <<Line("node", n, in_link)>> \o
         Flatten([i \in 1..Len(FieldsOf(h, n)) |->
                     dump_attribute(h, Kind(h, n, i), h[n].f[i], in_link, depth)])

\* Node::dump: a Dumper with in_link = false visits the node.
dump(h, root) == Dumper_visit(h, root, FALSE, MaxDepth)

\* The method every Visitor has to implement.
visit_node == "node"

\* A Visitor that sends every type straight to visit_node.
RECURSIVE visit_flat(_, _, _)
visit_flat(builders, name, overridden) ==
    <<name>> \o (IF name \in overridden THEN << >> ELSE <<visit_node>>)

\* Visitor<T>::visit_<name> as generate_visitor_class writes it: the
\* methods called, first to last.  The default body returns what the
\* method of the parent returns, or visit_node at the top; a method the
\* Visitor overrides is the Visitor's own code and ends the chain.
RECURSIVE visit(_, _, _)
visit(builders, name, overridden) ==
    <<name>> \o
    (IF name \in overridden THEN << >>
     ELSE IF builders[name].parent # "" THEN visit(builders, builders[name].parent, overridden)
     ELSE <<visit_node>>)

\* Node::derived
derived(builders, name) == {n \in DOMAIN builders : builders[n].parent = name}

\* <Node>::visit_internal calls raw_visit_<node>, which calls visit_<node>.
visit_internal(builders, name, overridden) == visit(builders, name, overridden)

\* No Visitor has visited anything.
NotVisited == [node |-> "", overridden |-> {}, calls |-> << >>]

\* The generator has not run.
NotRun == [phase |-> "yyparse", raised |-> {}, status |-> 0, out |-> << >>]

\* No PointerMap operation has run.
NoAdd == [op |-> "none", ptr |-> 0, before |-> EmptyMap,
          out |-> [thrown |-> FALSE, map |-> EmptyMap, seq |-> 0]]

\* No Reader operation has run.
NoRead == [op |-> "none", arg |-> << >>, out |-> [err |-> NoError]]

(***************************************************************************)
(* IdentifierMap (C++) and the seq_to_ob / links pair of the Python        *)
(* deserialize.  nodes maps identifiers to nodes; links lists the          *)
(* registered (link, identifier) pairs in order; val[l] is the node link l *)
(* points to, 0 while it is unset.                                         *)
(***************************************************************************)
\* The identifier Python keeps for a link whose @l is null.
PyNone == -1
LinkSlots == 1..MaxLinks
NoIdentifiers == [nodes |-> EmptyMap, links |-> << >>, val |-> [l \in LinkSlots |-> 0]]

\* IdentifierMap::register_node: emplace leaves an identifier that is
\* already there alone.
cpp_register_node(ids, identifier, ptr) ==
    IF identifier \in DOMAIN ids.nodes THEN [err |-> NoError, ids |-> ids]
    ELSE [err |-> NoError, ids |-> [ids EXCEPT !.nodes = (identifier :> ptr) @@ @]]

\* The end of <Node>._deserialize: a sequence number seen before raises.
py_register_node(ids, seq, node) ==
    IF seq \in DOMAIN ids.nodes THEN [err |-> "ValueError", ids |-> ids]
    ELSE [err |-> NoError, ids |-> [ids EXCEPT !.nodes = (seq :> node) @@ @]]

\* IdentifierMap::register_link, and links.append((setter, l_field)).
register_link(ids, link, identifier) ==
    [ids EXCEPT !.links = Append(@, [link |-> link, identifier |-> identifier])]

\* A restore_links that passes over a link whose identifier is unknown.
RECURSIVE cpp_restore_links_lenient(_, _)
cpp_restore_links_lenient(ids, i) ==
    IF i > Len(ids.links) THEN [err |-> NoError, ids |-> ids]
    ELSE IF ids.links[i].identifier \notin DOMAIN ids.nodes
    THEN cpp_restore_links_lenient(ids, i + 1)
    ELSE cpp_restore_links_lenient(
            [ids EXCEPT !.val[ids.links[i].link] = ids.nodes[ids.links[i].identifier]], i + 1)

\* IdentifierMap::restore_links, from the i-th registered link on:
\* nodes.at() throws for an identifier that is not there.
RECURSIVE cpp_restore_links(_, _)
cpp_restore_links(ids, i) ==
    IF i > Len(ids.links) THEN [err |-> NoError, ids |-> ids]
    ELSE IF ids.links[i].identifier \notin DOMAIN ids.nodes
    THEN [err |-> "out_of_range", ids |-> ids]
    ELSE cpp_restore_links(
            [ids EXCEPT !.val[ids.links[i].link] = ids.nodes[ids.links[i].identifier]], i + 1)

\* The loop at the end of Node.deserialize.
RECURSIVE py_restore_links(_, _)
py_restore_links(ids, i) ==
    IF i > Len(ids.links) THEN [err |-> NoError, ids |-> ids]
    ELSE IF ids.links[i].identifier \notin DOMAIN ids.nodes
    THEN [err |-> "ValueError", ids |-> ids]
    ELSE py_restore_links(
            [ids EXCEPT !.val[ids.links[i].link] = ids.nodes[ids.links[i].identifier]], i + 1)

\* No operation has run on the heap as it is now.
NoResult == [op |-> "none", lang |-> "none", root |-> 0, out |-> Ok]

Init ==
    /\ heap = << >>
    /\ res = NoResult
    /\ stack = << >>
    /\ id_counter = 1
    /\ stream = << >>
    /\ handles = << >>
    /\ wres = [op |-> "none", h |-> 0, err |-> "none"]
    /\ nops = 0
    /\ nstarts = 0
    /\ input = << >>
    /\ rres = NoRead
    /\ pmap = [map |-> EmptyMap, order |-> << >>, enable_exceptions |-> TRUE]
    /\ pres = NoAdd
    /\ idmap = NoIdentifiers
    /\ ires = [op |-> "none", lang |-> "none", err |-> NoError]
    /\ annotations = [ob \in Annotatables |-> NoAnnotations]
    /\ ares = NoAnnotated
    /\ specification = NewSpecification
    /\ gres = NotRun
    /\ vres = NotVisited

(***************************************************************************)
(* Building a tree.                                                        *)
(***************************************************************************)
\* tree::base::make<T>() / T(): a new node with default fields.
Make(t) ==
    /\ Len(heap) < MaxNodes
    /\ heap' = Append(heap, NewNode(t))
    /\ res' = NoResult
    /\ UNCHANGED <<wvars, rvars, pvars, ivars, avars, gvars>>

\* Assignment to a One/Maybe/Link/OptLink field (m = 0 empties it), or to a
\* primitive field.
SetEdge(n, i, m) ==
    /\ n \in Nodes(heap) /\ i \in 1..Len(FieldsOf(heap, n))
    /\ \/ /\ IsSingle(Kind(heap, n, i))
          /\ m \in 0..Len(heap)
          /\ m # 0 => heap[m].typ \in FieldsOf(heap, n)[i].to
       \/ /\ Kind(heap, n, i) = "Prim"
          /\ m \in PrimValues
    /\ heap[n].f[i] # m
    /\ heap' = [heap EXCEPT ![n].f[i] = m]
    /\ res' = NoResult
    /\ UNCHANGED <<wvars, rvars, pvars, ivars, avars, gvars>>

\* Any/Many::add(node): appends to the list.
Add(n, i, m) ==
    /\ n \in Nodes(heap) /\ i \in 1..Len(FieldsOf(heap, n))
    /\ IsList(Kind(heap, n, i))
    /\ m \in Nodes(heap)
    /\ heap[m].typ \in FieldsOf(heap, n)[i].to
    /\ Len(heap[n].f[i]) < MaxList
    /\ heap' = [heap EXCEPT ![n].f[i] = Append(@, m)]
    /\ res' = NoResult
    /\ UNCHANGED <<wvars, rvars, pvars, ivars, avars, gvars>>

\* Any/Many::remove(-1): removes the last element.
Remove(n, i) ==
    /\ n \in Nodes(heap) /\ i \in 1..Len(FieldsOf(heap, n))
    /\ IsList(Kind(heap, n, i))
    /\ heap[n].f[i] # << >>
    /\ heap' = [heap EXCEPT ![n].f[i] = SubSeq(@, 1, Len(@) - 1)]
    /\ res' = NoResult
    /\ UNCHANGED <<wvars, rvars, pvars, ivars, avars, gvars>>

\* root.check_well_formed()
CheckWellFormed(lang, root) ==
    /\ root \in Nodes(heap)
    /\ res' = [op |-> "check_well_formed", lang |-> lang, root |-> root,
               out |-> check_well_formed(lang, heap, root)]
    /\ UNCHANGED <<heap, wvars, rvars, pvars, ivars, avars, gvars>>

\* root.is_well_formed()
IsWellFormed(lang, root) ==
    /\ root \in Nodes(heap)
    /\ res' = [op |-> "is_well_formed", lang |-> lang, root |-> root,
               out |-> is_well_formed(lang, heap, root)]
    /\ UNCHANGED <<heap, wvars, rvars, pvars, ivars, avars, gvars>>

\* root.clone().check_well_formed(): the copy is validated on its own and
\* dropped.
CloneCheck(lang, root) ==
    /\ root \in Nodes(heap)
    /\ LET c == clone(lang, heap, root)
       IN  res' = [op |-> "clone", lang |-> lang, root |-> root,
                   out |-> IF c.err # "none" THEN Raise(c.err, "none")
                           ELSE check_well_formed(lang, c.heap, c.id)]
    /\ UNCHANGED <<heap, wvars, rvars, pvars, ivars, avars, gvars>>

\* Type.deserialize(root.serialize()) in the Python runtime: serialize()
\* raises before _serialize is reached.
RoundTrip(root) ==
    /\ root \in Nodes(heap)
    /\ res' = [op |-> "roundtrip", lang |-> "py", root |-> root,
               out |-> py_serialize(heap, root)]
    /\ UNCHANGED <<heap, wvars, rvars, pvars, ivars, avars, gvars>>

TreeNext ==
    \/ \E t \in NodeTypes : Make(t)
    \/ \E n \in 1..MaxNodes, i \in 1..2, m \in 0..MaxNodes : SetEdge(n, i, m)
    \/ \E n \in 1..MaxNodes, i \in 1..2, m \in 1..MaxNodes : Add(n, i, m)
    \/ \E n \in 1..MaxNodes, i \in 1..2 : Remove(n, i)
    \/ \E lang \in Langs, root \in Roots : CheckWellFormed(lang, root)
    \/ \E lang \in Langs, root \in Roots : IsWellFormed(lang, root)
    \/ \E lang \in Langs, root \in Roots : CloneCheck(lang, root)
    \/ \E root \in Roots : RoundTrip(root)

Spec == Init /\ [][TreeNext]_vars

(***************************************************************************)
(* Serializing the tree that was built.                                    *)
(***************************************************************************)
Serialize(lang, root) ==
    /\ root \in Nodes(heap)
    /\ res' = [op |-> "serialize", lang |-> lang, root |-> root,
               out |-> IF lang = "cpp" THEN cpp_serialize(heap, root)
                       ELSE py__serialize(heap, root)]
    /\ UNCHANGED <<heap, wvars, rvars, pvars, ivars, avars, gvars>>

SerializeNext ==
    \/ \E t \in NodeTypes : Make(t)
    \/ \E n \in 1..MaxNodes, i \in 1..2, m \in 0..MaxNodes : SetEdge(n, i, m)
    \/ \E n \in 1..MaxNodes, i \in 1..2, m \in 1..MaxNodes : Add(n, i, m)
    \/ \E n \in 1..MaxNodes, i \in 1..2 : Remove(n, i)
    \/ \E lang \in Langs, root \in Roots : Serialize(lang, root)

SerializeSpec == Init /\ [][SerializeNext]_vars

(***************************************************************************)
(* Dumping the tree that was built.                                        *)
(***************************************************************************)
\* root.dump()
Dump(root) ==
    /\ root \in Nodes(heap)
    /\ res' = [op |-> "dump", lang |-> "cpp", root |-> root, out |-> dump(heap, root)]
    /\ UNCHANGED <<heap, wvars, rvars, pvars, ivars, avars, gvars>>

DumpNext ==
    \/ \E t \in NodeTypes : Make(t)
    \/ \E n \in 1..MaxNodes, i \in 1..2, m \in 0..MaxNodes : SetEdge(n, i, m)
    \/ \E n \in 1..MaxNodes, i \in 1..2, m \in 1..MaxNodes : Add(n, i, m)
    \/ \E n \in 1..MaxNodes, i \in 1..2 : Remove(n, i)
    \/ \E root \in Roots : Dump(root)

DumpSpec == Init /\ [][DumpNext]_vars

(***************************************************************************)
(* Operations on one Writer and the handles it gave out.  handles[hi] is a *)
(* StructureWriter object: its writer pointer (set or null), its id, the   *)
(* class it was made as, and whether it still exists.                      *)
(***************************************************************************)
Keys == {<<97>>}
BoolValues == {TRUE, FALSE}
IntValues == {24}
Strings == {<<98>>}

Cur == [stack |-> stack, id_counter |-> id_counter, stream |-> stream, thrown |-> FALSE]

Alive(hi) == hi \in 1..Len(handles) /\ handles[hi].alive

\* The Writer after an operation, and what the caller saw of it.
Done(op, hi, W) ==
    /\ stack' = W.stack
    /\ id_counter' = W.id_counter
    /\ stream' = W.stream
    /\ wres' = [op |-> op, h |-> hi, err |-> IF W.thrown THEN "error" ELSE "none"]
    /\ nops' = nops + 1
    /\ UNCHANGED <<tvars, rvars, pvars, ivars, avars, gvars>>

\* MapWriter::append_*(key, ...) writes the key first; ArrayWriter does not.
with_key(W, h, key) == IF h.kind = "map" THEN write_string(W, h, key) ELSE W

\* writer.start()
Start ==
    /\ nops < MaxOps /\ Len(handles) < MaxHandles
    /\ LET r == start(Cur)
       IN  /\ Done("start", 0, r.W)
           /\ handles' = IF r.W.thrown THEN handles ELSE Append(handles, r.h)
           /\ nstarts' = IF r.W.thrown THEN nstarts ELSE nstarts + 1

AppendNull(hi, key) ==
    /\ nops < MaxOps /\ Alive(hi)
    /\ Done("append", hi, write_null(with_key(Cur, handles[hi], key), handles[hi]))
    /\ UNCHANGED <<handles, nstarts>>

AppendBool(hi, key, value) ==
    /\ nops < MaxOps /\ Alive(hi)
    /\ Done("append", hi, write_bool(with_key(Cur, handles[hi], key), handles[hi], value))
    /\ UNCHANGED <<handles, nstarts>>

AppendInt(hi, key, value) ==
    /\ nops < MaxOps /\ Alive(hi)
    /\ Done("append", hi, write_int(with_key(Cur, handles[hi], key), handles[hi], I64(value), 0))
    /\ UNCHANGED <<handles, nstarts>>

AppendString(hi, key, value) ==
    /\ nops < MaxOps /\ Alive(hi)
    /\ Done("append", hi, write_string(with_key(Cur, handles[hi], key), handles[hi], value))
    /\ UNCHANGED <<handles, nstarts>>

\* append_array / append_map
AppendStructure(hi, key, kind) ==
    /\ nops < MaxOps /\ Alive(hi) /\ Len(handles) < MaxHandles
    /\ LET r == write_structure(with_key(Cur, handles[hi], key), handles[hi], kind)
       IN  /\ Done("append_structure", hi, r.W)
           /\ handles' = IF r.W.thrown THEN handles ELSE Append(handles, r.h)
    /\ UNCHANGED nstarts

\* handle.close()
Close(hi) ==
    /\ nops < MaxOps /\ Alive(hi)
    /\ Done("close", hi, close(Cur, handles[hi]))
    /\ UNCHANGED <<handles, nstarts>>

\* The handle goes out of scope: ~StructureWriter.
Destroy(hi) ==
    /\ nops < MaxOps /\ Alive(hi)
    /\ Done("destroy", hi, close_if_active(Cur, handles[hi]))
    /\ handles' = [handles EXCEPT ![hi].alive = FALSE]
    /\ UNCHANGED nstarts

\* StructureWriter(StructureWriter &&src)
MoveConstruct(src) ==
    /\ nops < MaxOps /\ Alive(src) /\ Len(handles) < MaxHandles
    /\ Done("move", src, Cur)
    /\ handles' = Append([handles EXCEPT ![src].writer = FALSE, ![src].id = 0],
                         handles[src])
    /\ UNCHANGED nstarts

\* dst = std::move(src)
MoveAssign(dst, src) ==
    /\ nops < MaxOps /\ Alive(dst) /\ Alive(src)
    /\ handles[dst].kind = handles[src].kind
    /\ Done("move_assign", dst, close_if_active(Cur, handles[dst]))
    /\ handles' = [handles EXCEPT ![dst].writer = handles[src].writer,
                                  ![dst].id = handles[src].id,
                                  ![src].writer = FALSE,
                                  ![src].id = 0]
    /\ UNCHANGED nstarts

WriterNext ==
    \/ Start
    \/ \E hi \in 1..MaxHandles, key \in Keys : AppendNull(hi, key)
    \/ \E hi \in 1..MaxHandles, key \in Keys, value \in BoolValues : AppendBool(hi, key, value)
    \/ \E hi \in 1..MaxHandles, key \in Keys, value \in IntValues : AppendInt(hi, key, value)
    \/ \E hi \in 1..MaxHandles, key \in Keys, value \in Strings : AppendString(hi, key, value)
    \/ \E hi \in 1..MaxHandles, key \in Keys, kind \in {"array", "map"} : AppendStructure(hi, key, kind)
    \/ \E hi \in 1..MaxHandles : Close(hi)
    \/ \E hi \in 1..MaxHandles : Destroy(hi)
    \/ \E src \in 1..MaxHandles : MoveConstruct(src)
    \/ \E dst \in 1..MaxHandles, src \in 1..MaxHandles : MoveAssign(dst, src)

WriterSpec == Init /\ [][WriterNext]_vars

(***************************************************************************)
(* Integers through the writer and the reader.  An integer is written as   *)
(* one item (what ArrayWriter::append_int puts on the stream) and the      *)
(* Reader slice over that item is asked for it.                            *)
(***************************************************************************)
\* The bytes of the input.
Data == Flatten(input)

INT64_MAX == <<127, 255, 255, 255, 255, 255, 255, 255>>
INT64_MIN == <<128, 0, 0, 0, 0, 0, 0, 0>>

\* The values written: around every power of 256, with their negatives,
\* and around the one-byte threshold.
Magnitudes ==
    { [i \in 1..8 |-> IF i <= z THEN 0 ELSE IF i = z + 1 THEN lead ELSE fill] :
        z \in 0..7, lead \in {1, 127, 128, 255}, fill \in {0, 255} }
    \cup {U64(0), U64(23), U64(24)}
Int64Values ==
    LET nonneg == {m \in Magnitudes : ~IsNegative(m)}
    IN  nonneg \cup {Not64(m) : m \in nonneg}
Majors == {0, 3}

\* write_int(value, major) on an empty stream.
WriteInt(value, major) ==
    /\ rres.op = "none" /\ input = << >>
    /\ major = 0 \/ ~IsNegative(value)
    /\ input' = <<int_bytes(value, major)>>
    /\ rres' = [op |-> "write_int", arg |-> [value |-> value, major |-> major],
                out |-> [err |-> NoError]]
    /\ UNCHANGED <<tvars, wvars, pvars, ivars, avars, gvars>>

Written == rres.op \in {"write_int", "py_write_intlike"}

\* as_int() of the slice holding the item.
AsInt ==
    /\ Written
    /\ rres' = [op |-> "as_int", arg |-> rres.arg,
                out |-> as_int(Slice(Data, 0, Len(Data)))]
    /\ UNCHANGED <<input, tvars, wvars, pvars, ivars, avars, gvars>>

\* _cbor_write_intlike(value, major)
PyWriteIntlike(value, major) ==
    /\ rres.op = "none" /\ input = << >>
    /\ major = 0 \/ ~IsNegative(value)
    /\ input' = <<py_cbor_write_intlike(value, major)>>
    /\ rres' = [op |-> "py_write_intlike", arg |-> [value |-> value, major |-> major],
                out |-> [err |-> NoError]]
    /\ UNCHANGED <<tvars, wvars, pvars, ivars, avars, gvars>>

\* The header that was written, read by read_intlike and by
\* _cbor_read_intlike, each from the byte behind the initial byte.
ReadIntlike ==
    /\ Written
    /\ rres' = [op |-> "read_intlike", arg |-> rres.arg,
                out |-> [cpp |-> read_intlike(Slice(Data, 0, Len(Data)), Data[1] % 32, 1),
                         py |-> py_cbor_read_intlike(Data, 1, Data[1] % 32)]]
    /\ UNCHANGED <<input, tvars, wvars, pvars, ivars, avars, gvars>>

IntNext ==
    \/ \E value \in Int64Values, major \in Majors : WriteInt(value, major)
    \/ \E value \in Int64Values, major \in Majors : PyWriteIntlike(value, major)
    \/ AsInt
    \/ ReadIntlike

IntSpec == Init /\ [][IntNext]_vars

(***************************************************************************)
(* Reading.  An input is put together from pieces: items, headers of       *)
(* containers, tags, breaks, and headers that declare more than follows.   *)
(* A Reader is constructed over it and, if that succeeds, asked.           *)
(***************************************************************************)
Chunks ==
    { <<1>>,                                          \* 1
      <<97, 97>>,                                     \* "a"
      <<97, 97, 1>>, <<97, 97, 2>>,                   \* "a": 1 and "a": 2
      <<162>>, <<191>>,                               \* map of 2 pairs, map up to a break
      <<129>>, <<159>>,                               \* array of 1, array up to a break
      <<255>>,                                        \* break
      <<192>>,                                        \* tag 0
      <<247>>, <<249, 0, 0>>, <<250, 0, 0, 0, 0>>,    \* undefined, half, single
      <<252>>,                                        \* major type 7, info 28
      <<127>>, <<65, 0>>,                             \* text up to a break; 1 byte of binary
      <<91, 255, 255, 255, 255, 255, 255, 255, 247>>, \* binary of 2^64 - 9 bytes
      <<91, 255, 255, 255, 255, 255, 255, 255, 255>>, \* binary of 2^64 - 1 bytes
      <<27>> \o INT64_MAX, <<27>> \o INT64_MIN }      \* 2^63 - 1 and 2^63

Feed(chunk) ==
    /\ rres.op = "none" /\ Len(input) < MaxChunks
    /\ input' = Append(input, chunk)
    /\ UNCHANGED <<rres, tvars, wvars, pvars, ivars, avars, gvars>>

\* Whether the constructor returned or threw.
Outcome(r) == [err |-> r.err, past |-> r.past]

\* tree::cbor::Reader reader(data)
Construct ==
    /\ rres.op = "none"
    /\ rres' = [op |-> "Reader", arg |-> Data, out |-> Outcome(Reader(Data))]
    /\ UNCHANGED <<input, tvars, wvars, pvars, ivars, avars, gvars>>

Constructed == rres.op = "Reader" /\ rres.out.err = NoError
Whole == Slice(Data, 0, Len(Data))

\* reader.is_...() and reader.as_...()
Ask ==
    /\ Constructed
    /\ rres' = [op |-> "ask", arg |-> Data, out |-> Answers(Whole)]
    /\ UNCHANGED <<input, tvars, wvars, pvars, ivars, avars, gvars>>

\* The item found in an ArrayReader or a MapReader, asked.
AskAt(op, found) ==
    /\ Constructed
    /\ found.err = NoError
    /\ rres' = [op |-> op, arg |-> found.item.raw, out |-> Answers(found.item.R)]
    /\ UNCHANGED <<input, tvars, wvars, pvars, ivars, avars, gvars>>

\* reader.as_array().at(i - 1), asked
AskItem(i) == AskAt("ask_item", item_at(as_array(Whole), i))

\* reader.as_map().at(key), asked
AskEntry(key) == AskAt("ask_entry", item_at(as_map(Whole), key))

ReaderNext ==
    \/ \E chunk \in Chunks : Feed(chunk)
    \/ Construct
    \/ Ask
    \/ \E i \in 1..MaxChunks : AskItem(i)
    \/ \E key \in Keys : AskEntry(key)

ReaderSpec == Init /\ [][ReaderNext]_vars

(***************************************************************************)
(* One PointerMap and the add() calls made on it.                          *)
(***************************************************************************)
Ptrs == 1..MaxPtrs

\* PointerMap map(enable_exceptions)
NewPointerMap(enable_exceptions) ==
    /\ pres.op = "none"
    /\ pmap' = [map |-> EmptyMap, order |-> << >>, enable_exceptions |-> enable_exceptions]
    /\ pres' = [NoAdd EXCEPT !.op = "new"]
    /\ UNCHANGED <<tvars, wvars, rvars, ivars, avars, gvars>>

\* map.add(node), which hands the node's address to add_raw
PointerMapAdd(ptr) ==
    LET r == add_raw(pmap.map, ptr, pmap.enable_exceptions)
    IN  /\ pres' = [op |-> "add", ptr |-> ptr, before |-> pmap.map, out |-> r]
        /\ pmap' = [pmap EXCEPT !.map = r.map,
                                !.order = IF ptr \in DOMAIN pmap.map THEN @ ELSE Append(@, ptr)]
        /\ UNCHANGED <<tvars, wvars, rvars, ivars, avars, gvars>>

PointerMapNext ==
    \/ \E enable_exceptions \in BOOLEAN : NewPointerMap(enable_exceptions)
    \/ \E ptr \in Ptrs : PointerMapAdd(ptr)

PointerMapSpec == Init /\ [][PointerMapNext]_vars

(***************************************************************************)
(* Deserialization as the IdentifierMap sees it: nodes and links are       *)
(* registered in the order the tree is read, then the links are restored.  *)
(***************************************************************************)
Identifiers == 0..(MaxIds - 1)
Restored == ires.op = "restore_links"
\* One runtime per deserialization.
Deserializing(lang) == ~Restored /\ ires.lang \in {"none", lang}

RegisterNode(lang, identifier, node) ==
    /\ Deserializing(lang)
    /\ LET r == IF lang = "cpp" THEN cpp_register_node(idmap, identifier, node)
                ELSE py_register_node(idmap, identifier, node)
       IN  /\ idmap' = r.ids
           /\ ires' = [op |-> "register_node", lang |-> lang, err |-> r.err]
    /\ UNCHANGED <<tvars, wvars, rvars, pvars, avars, gvars>>

\* The generated C++ registers a link only if its @l is not null; the
\* generated Python registers every link field, null or not.
RegisterLink(lang, link, identifier) ==
    /\ Deserializing(lang)
    /\ \A i \in 1..Len(idmap.links) : idmap.links[i].link # link
    /\ identifier = PyNone => lang = "py"
    /\ idmap' = register_link(idmap, link, identifier)
    /\ ires' = [op |-> "register_link", lang |-> lang, err |-> NoError]
    /\ UNCHANGED <<tvars, wvars, rvars, pvars, avars, gvars>>

RestoreLinks(lang) ==
    /\ Deserializing(lang)
    /\ LET r == IF lang = "cpp" THEN cpp_restore_links(idmap, 1)
                ELSE py_restore_links(idmap, 1)
       IN  /\ idmap' = r.ids
           /\ ires' = [op |-> "restore_links", lang |-> lang, err |-> r.err]
    /\ UNCHANGED <<tvars, wvars, rvars, pvars, avars, gvars>>

IdentifierNext ==
    \/ \E lang \in Langs, identifier \in Identifiers, node \in 1..MaxIds :
          RegisterNode(lang, identifier, node)
    \/ \E lang \in Langs, link \in LinkSlots, identifier \in Identifiers \cup {PyNone} :
          RegisterLink(lang, link, identifier)
    \/ \E lang \in Langs : RestoreLinks(lang)

IdentifierSpec == Init /\ [][IdentifierNext]_vars

(***************************************************************************)
(* Annotating two objects.                                                 *)
(***************************************************************************)
Annotated(op, ob, T, x, a, out) ==
    /\ annotations' = [annotations EXCEPT ![ob] = a]
    /\ ares' = [op |-> op, ob |-> ob, T |-> T, x |-> x, before |-> annotations[ob], out |-> out]
    /\ UNCHANGED <<tvars, wvars, rvars, pvars, ivars, gvars>>

\* ob.set_annotation<T>(x)
SetAnnotation(ob, T, x) ==
    Annotated("set_annotation", ob, T, x, set_annotation(annotations[ob], T, x), [err |-> NoError])

\* ob.has_annotation<T>()
HasAnnotation(ob, T) ==
    Annotated("has_annotation", ob, T, 0, annotations[ob],
              [err |-> NoError, value |-> has_annotation(annotations[ob], T)])

\* ob.get_annotation<T>()
GetAnnotation(ob, T) ==
    Annotated("get_annotation", ob, T, 0, annotations[ob], get_annotation(annotations[ob], T))

\* ob.erase_annotation<T>()
EraseAnnotation(ob, T) ==
    Annotated("erase_annotation", ob, T, 0, erase_annotation(annotations[ob], T), [err |-> NoError])

\* ob.copy_annotation<T>(src)
CopyAnnotation(ob, src, T) ==
    Annotated("copy_annotation", ob, T, src,
              copy_annotation(annotations[ob], annotations[src], T), [err |-> NoError])

AnnotationNext ==
    \/ \E ob \in Annotatables, T \in AnnotationTypes, x \in AnnotationValues : SetAnnotation(ob, T, x)
    \/ \E ob \in Annotatables, T \in AnnotationTypes : HasAnnotation(ob, T)
    \/ \E ob \in Annotatables, T \in AnnotationTypes : GetAnnotation(ob, T)
    \/ \E ob \in Annotatables, T \in AnnotationTypes : EraseAnnotation(ob, T)
    \/ \E ob \in Annotatables, src \in Annotatables, T \in AnnotationTypes : CopyAnnotation(ob, src, T)

AnnotationSpec == Init /\ [][AnnotationNext]_vars

(***************************************************************************)
(* A run of the generator: main parses the schema, each reduction calling  *)
(* the Specification under TRY ... CATCH, then builds and generates.       *)
(***************************************************************************)
NodeNames == {"x", "y"}
FieldNames == {"a", "b", "c"}
ChildTypes == {"One", "Link"}
\* The nodes a field may name: one that is declared at some time, and one
\* that never is.
Targets == {"x", "u"}
Orders == {<<"a">>, <<"b", "a">>, <<"c">>}

\* std::terminate after an exception that main does not catch.
Aborted == 134

\* The declarations read so far.
RECURSIVE Sum(_, _)
Sum(f, S) == IF S = {} THEN 0 ELSE LET n == CHOOSE n \in S : TRUE IN f[n] + Sum(f, S \ {n})
Decls ==
    LET b == specification.builders
    IN  Sum([n \in DOMAIN b |-> 1 + Len(b[n].fields) + (IF b[n].order = << >> THEN 0 ELSE 1)],
            DOMAIN b)
        + Cardinality({d \in {specification.tree_namespace, specification.support_namespace,
                              specification.initialize_function} : d # ""})
        + Cardinality(gres.raised)

Parsing == gres.phase = "yyparse" /\ Decls < MaxDecls

\* TRY ... CATCH around a reduction: an exception is reported by yyerror
\* and the parse goes on.
Reduced(did) ==
    /\ specification' = did.spec
    /\ gres' = [gres EXCEPT !.raised = IF did.err = NoError THEN @ ELSE @ \cup {did.err}]
    /\ UNCHANGED <<vres, tvars, wvars, rvars, pvars, ivars, avars>>

\* The Specification with one of its builders replaced.
With(node, builder) == Did(NoError, [specification EXCEPT !.builders[node] = builder])

\* Node: Documentation IDENT '{', at the top or inside the node parent.
\* The action of a node whose name is taken leaves $$ unset; only the
\* case of such a node at the top and without fields is taken up here.
DeclareNode(name, parent) ==
    /\ Parsing
    /\ parent \in (DOMAIN specification.builders \cup {""}) \ {name}
    /\ name \in DOMAIN specification.builders => parent = ""
    /\ Reduced(add_node(specification, NodeBuilder(name, parent)))

\* Node: Node Documentation IDENT ':' ONE '<' Identifier '>' ';' and the like
DeclareChild(node, type, node_name, name) ==
    /\ Parsing
    /\ node \in DOMAIN specification.builders
    /\ Len(specification.builders[node].fields) < MaxFields
    /\ Reduced(With(node, with_child(specification.builders[node], type, node_name, name)))

\* Node: Node Documentation IDENT ':' Identifier ';'
DeclarePrim(node, name) ==
    /\ Parsing
    /\ node \in DOMAIN specification.builders
    /\ Len(specification.builders[node].fields) < MaxFields
    /\ Reduced(With(node, with_prim(specification.builders[node], "int", name, "Prim")))

\* Node: Node Documentation REORDER '(' Identifiers ')' ';'
DeclareOrder(node, order) ==
    /\ Parsing
    /\ node \in DOMAIN specification.builders
    /\ Reduced(With(node, with_order(specification.builders[node], order)))

\* Root: Root TREE_NS Identifier
DeclareTreeNamespace == Parsing /\ Reduced(set_tree_namespace(specification, "ns"))

\* Root: Root SUPPORT_NS Identifier
DeclareSupportNamespace == Parsing /\ Reduced(set_support_namespace(specification, "support"))

\* Root: Root INIT_FN Identifier
DeclareInitializeFunction == Parsing /\ Reduced(set_initialize_function(specification, "init"))

\* main returns status, after the errors in raised.
Exit(status, raised, out) ==
    gres' = [phase |-> "exit", raised |-> gres.raised \cup raised, status |-> status, out |-> out]

\* yyparse meets a syntax error and returns nonzero: main returns 1.
SyntaxError ==
    /\ gres.phase = "yyparse"
    /\ Exit(1, {"syntax error"}, << >>)
    /\ UNCHANGED <<specification, vres, tvars, wvars, rvars, pvars, ivars, avars>>

\* yyparse returns 0 and main calls specification.build().
Build ==
    /\ gres.phase = "yyparse"
    /\ IF build(specification).err # NoError
       THEN Exit(1, {build(specification).err}, << >>) /\ UNCHANGED specification
       ELSE /\ specification' = build(specification).spec
            /\ gres' = [gres EXCEPT !.phase = "generate"]
    /\ UNCHANGED <<vres, tvars, wvars, rvars, pvars, ivars, avars>>

\* What cpp::generate takes from the nodes: for each the fields in the
\* order of all_fields, which find_reachable, check_complete, equals,
\* serialize and the Dumper follow, and the fields in the order in which
\* RecursiveVisitor visits them.
Emitted(builders) ==
    [n \in DOMAIN builders |->
        [all_fields |-> all_fields(builders, n),
         visit |-> names(recursive_visit(builders, n))]]

\* The errors thrown during generation.
Thrown(out) == {out[n].all_fields.err : n \in DOMAIN out} \ {NoError}

\* cpp::generate(argv[2], argv[3], specification); return 0.  An exception
\* of all_fields is caught nowhere.
Generated(out) ==
    /\ Exit(IF Thrown(out) = {} THEN 0 ELSE Aborted, Thrown(out), out)
    /\ UNCHANGED <<specification, vres, tvars, wvars, rvars, pvars, ivars, avars>>

Generate == gres.phase = "generate" /\ Generated(Emitted(specification.builders))

\* node.visit(visitor) on a node of a type without derived types, the only
\* ones with a visit_internal, by a Visitor that overrides the methods of
\* the types in overridden.
Visit(node, overridden) ==
    /\ gres.phase = "exit" /\ gres.status = 0
    /\ node \in DOMAIN specification.builders
    /\ derived(specification.builders, node) = {}
    /\ vres' = [node |-> node, overridden |-> overridden,
                calls |-> visit_internal(specification.builders, node, overridden)]
    /\ UNCHANGED <<specification, gres, tvars, wvars, rvars, pvars, ivars, avars>>

\* Schemas with their directives: a node x, a node y beside it or derived
\* from it, primitive fields a, fields b of a node that is declared or not,
\* and an order that names a field that is nowhere.
GeneratorNext ==
    \/ \E name \in NodeNames, parent \in {"", "x"} : DeclareNode(name, parent)
    \/ \E node \in NodeNames, node_name \in Targets : DeclareChild(node, "One", node_name, "b")
    \/ \E node \in NodeNames : DeclarePrim(node, "a")
    \/ \E node \in NodeNames : DeclareOrder(node, <<"c">>)
    \/ DeclareTreeNamespace
    \/ DeclareSupportNamespace
    \/ DeclareInitializeFunction
    \/ SyntaxError
    \/ Build
    \/ Generate

GeneratorSpec == Init /\ [][GeneratorNext]_vars

\* Schemas of a node x and a node y derived from it, with fields a, b, c
\* that own or link a node, in every order the two can be given.
FieldOrderNext ==
    \/ DeclareNode("x", "") \/ DeclareNode("y", "x")
    \/ \E node \in NodeNames, type \in ChildTypes, name \in FieldNames :
          DeclareChild(node, type, "x", name)
    \/ \E node \in NodeNames, order \in Orders : DeclareOrder(node, order)
    \/ DeclareInitializeFunction
    \/ Build
    \/ Generate

FieldOrderSpec == Init /\ [][FieldOrderNext]_vars

\* Schemas of up to three nodes, each at the top or derived from an
\* earlier one, and the Visitors over the generated classes.
VisitedNames == {"x", "y", "z"}
VisitorNext ==
    \/ DeclareNode("x", "")
    \/ \E parent \in {"", "x"} : DeclareNode("y", parent)
    \/ \E parent \in {"", "x", "y"} : DeclareNode("z", parent)
    \/ DeclareInitializeFunction
    \/ Build
    \/ Generate
    \/ \E node \in VisitedNames, overridden \in SUBSET VisitedNames : Visit(node, overridden)
VisitorSpec == Init /\ [][VisitorNext]_vars
(***************************************************************************)
(* What the specification calls a well-formed tree, stated on the heap     *)
(* without reference to the two passes.                                    *)
(***************************************************************************)
Reach(h, root) == OwnReach(h, {root})

\* The owning slots (node, field, position) inside the tree that hold m.
SlotsHolding(h, root, m) ==
    {s \in Reach(h, root) \X (1..2) \X (1..Len(h)) :
        /\ s[2] <= Len(FieldsOf(h, s[1]))
        /\ IsOwning(Kind(h, s[1], s[2]))
        /\ s[3] <= Len(EdgeTargets(Kind(h, s[1], s[2]), h[s[1]].f[s[2]]))
        /\ EdgeTargets(Kind(h, s[1], s[2]), h[s[1]].f[s[2]])[s[3]] = m}

\* Every node of the tree is held by exactly one owning slot (the root by
\* the root handle only).
OwnedOnce(h, root) ==
    \A m \in Reach(h, root) :
        Cardinality(SlotsHolding(h, root, m)) = IF m = root THEN 0 ELSE 1

PopulatedLinks(h, root) ==
    {s \in Reach(h, root) \X (1..2) :
        /\ s[2] <= Len(FieldsOf(h, s[1]))
        /\ IsLink(Kind(h, s[1], s[2]))
        /\ h[s[1]].f[s[2]] # 0}

LinksResolved(h, root) ==
    \A s \in PopulatedLinks(h, root) : h[s[1]].f[s[2]] \in Reach(h, root)

NoneEmpty(h, root) ==
    \A n \in Reach(h, root) : \A i \in 1..Len(FieldsOf(h, n)) :
        /\ Kind(h, n, i) \in {"One", "Link"} => h[n].f[i] # 0
        /\ Kind(h, n, i) = "Many" => h[n].f[i] # << >>

NoErrorMarker(h, root) ==
    \A n \in Reach(h, root) : ~is_error_marker(h[n].typ)

WellFormedTree(h, root) ==
    OwnedOnce(h, root) /\ LinksResolved(h, root) /\ NoneEmpty(h, root)
        /\ NoErrorMarker(h, root)

Checked == res.op = "check_well_formed"
Asked == res.op = "is_well_formed"

(***************************************************************************)
(* C1: for every well-formed tree t, deserialize(serialize(t)) returns a   *)
(* tree (structurally equal to t); in particular the round trip does not   *)
(* raise.                                                                  *)
(***************************************************************************)
C1_RoundTripReturns ==
    (res.op = "roundtrip" /\ WellFormedTree(heap, res.root)) => res.out.err = "none"

(***************************************************************************)
(* C2: whenever check_well_formed() returns without error on a root,       *)
(* (a) every node of the tree is owned exactly once, (b) every populated   *)
(* link targets a node of the tree, (c) no One, Link or Many edge is empty *)
(* and (d) no error-marker node is present.                                *)
(***************************************************************************)
C2_CheckSound ==
    (Checked /\ res.out.err = "none") =>
        /\ OwnedOnce(heap, res.root)
        /\ LinksResolved(heap, res.root)
        /\ NoneEmpty(heap, res.root)
        /\ NoErrorMarker(heap, res.root)

(***************************************************************************)
(* C3: when a node is reachable from the root through two owning edges,    *)
(* check_well_formed() raises NotWellFormed for a duplicate node and       *)
(* is_well_formed() returns false.                                         *)
(***************************************************************************)
C3_DuplicateRejected ==
    ((Checked \/ Asked) /\ ~OwnedOnce(heap, res.root)) =>
        /\ Checked => res.out = NotWellFormed("duplicate")
        /\ Asked => (res.out.err = "none" /\ res.out.value = FALSE)

\* C3 witness: is_well_formed() answered false for a tree in which a list
\* holds the same node twice.
C3_Witness ==
    /\ Asked
    /\ res.out.err = "none" /\ res.out.value = FALSE
    /\ \E n \in Reach(heap, res.root) : \E i \in 1..Len(FieldsOf(heap, n)) :
          /\ IsList(Kind(heap, n, i))
          /\ Len(heap[n].f[i]) = 2
          /\ heap[n].f[i][1] = heap[n].f[i][2]

C5_OnlyNotWellFormedConverted ==
    Asked =>
        LET c == check_well_formed(res.lang, heap, res.root)
        IN  /\ (res.out.err = "none" /\ res.out.value = FALSE) <=> c.err = "NotWellFormed"
            /\ (res.out.err = "none" /\ res.out.value = TRUE) <=> c.err = "none"
            /\ c.err \notin {"none", "NotWellFormed"} => res.out.err = c.err

\* C5 witness: an error other than NotWellFormed came out of
\* is_well_formed().
C5_Witness ==
    Asked /\ res.out.err \notin {"none", "NotWellFormed"}

(***************************************************************************)
(* C6: a tree that holds an error-marker node, as the root or as an owned  *)
(* descendant, makes check_well_formed() raise NotWellFormed in either     *)
(* target language.                                                        *)
(***************************************************************************)
C6_ErrorMarkerRejected ==
    (Checked /\ ~NoErrorMarker(heap, res.root)) => res.out.err = "NotWellFormed"

HandleOps == {"append", "append_structure", "close"}

\* Handle hi is not the innermost open one: moved from, closed, or
\* shadowed by a nested structure.
Inactive(hi) ==
    \/ ~handles[hi].writer
    \/ stack = << >>
    \/ stack[Len(stack)] # handles[hi].id

\* The number of complete items at the top level of a byte string, each of
\* them an indefinite-length map; -1 when the bytes are anything else.
RECURSIVE TopLevelScan(_, _, _, _)
TopLevelScan(bs, i, depth, count) ==
    IF i > Len(bs) THEN (IF depth = 0 THEN count ELSE -1)
    ELSE LET b == bs[i]
             major == b \div 32
             info == b % 32
         IN  IF b = 191 \/ b = 159
             THEN IF depth = 0 /\ b = 159 THEN -1
                  ELSE TopLevelScan(bs, i + 1, depth + 1, count)
             ELSE IF b = 255
             THEN IF depth = 0 THEN -1
                  ELSE TopLevelScan(bs, i + 1, depth - 1,
                                    IF depth = 1 THEN count + 1 ELSE count)
             ELSE IF depth = 0 THEN -1
             ELSE IF major \in {2, 3} /\ info < 24
             THEN TopLevelScan(bs, i + 1 + info, depth, count)
             ELSE IF major \in {0, 1}
             THEN TopLevelScan(bs, i + 1 + (IF info < 24 THEN 0 ELSE IF info = 24 THEN 1
                                            ELSE IF info = 25 THEN 2 ELSE 4),
                               depth, count)
             ELSE TopLevelScan(bs, i + 1, depth, count)

TopLevelMaps(bs) == TopLevelScan(bs, 1, 0, 0)

(***************************************************************************)
(* C8: a write, append, write_array/write_map or close() through a handle  *)
(* that is not the innermost open one (shadowed, already closed, or moved  *)
(* from) fails with an error, appends no byte and leaves the stack as it   *)
(* was.                                                                    *)
(***************************************************************************)
C8_InactiveHandleRejected ==
    [][ ( /\ nops' = nops + 1
          /\ wres'.op \in HandleOps
          /\ Inactive(wres'.h) ) =>
        ( /\ wres'.err = "error"
          /\ stream' = stream
          /\ stack' = stack ) ]_vars

\* C8 witness: an append through a handle shadowed by an open nested
\* structure was refused.
C8_Witness ==
    /\ wres.op = "append" /\ wres.err = "error"
    /\ handles[wres.h].writer
    /\ \E k \in 1..Len(stack) - 1 : stack[k] = handles[wres.h].id

(***************************************************************************)
(* C9: a close() that succeeds was issued through the innermost open       *)
(* handle, appends exactly the break byte 0xFF and pops that handle, so    *)
(* that the one opened before it is on top again; and a handle accepts a   *)
(* value only while it is on top, that is, once every structure nested in  *)
(* it has been closed.                                                     *)
(***************************************************************************)
C9_CloseWritesBreakAndPops ==
    [][ /\ ( /\ nops' = nops + 1
             /\ wres'.op = "close"
             /\ wres'.err = "none" ) =>
           ( /\ ~Inactive(wres'.h)
             /\ stream' = Append(stream, 255)
             /\ stack' = SubSeq(stack, 1, Len(stack) - 1) )
        /\ ( /\ nops' = nops + 1
             /\ wres'.op \in {"append", "append_structure"}
             /\ wres'.err = "none" ) =>
           ~Inactive(wres'.h) ]_vars

\* C9 witness: the root map accepted a value after a structure nested in
\* it had been closed.
C9_Witness ==
    /\ wres.op = "append" /\ wres.err = "none"
    /\ nstarts = 1 /\ Len(stack) = 1
    /\ handles[wres.h].id = stack[1]
    /\ \E i \in 1..Len(stream) : stream[i] = 255

(***************************************************************************)
(* C10 as amended: once all handles are closed, the bytes written are one  *)
(* complete top-level map per successful start(), one after another; they  *)
(* are a single map exactly when start() was called once.                  *)
(***************************************************************************)
C10_OneMapPerStart ==
    stack = << >> => TopLevelMaps(stream) = nstarts

\* C10 as stated: once all handles are closed, the bytes written are
\* exactly one top-level map.
C10_SingleRootMap ==
    (stack = << >> /\ nstarts >= 1) => TopLevelMaps(stream) = 1

\* C10 witness: two maps written back to back by one Writer.
C10_Witness ==
    stack = << >> /\ nstarts = 2 /\ TopLevelMaps(stream) = 2

(***************************************************************************)
(* C11: an int64_t written by append_int and read back with as_int() is    *)
(* the same value, for every width of the encoding and for INT64_MIN and   *)
(* INT64_MAX.                                                              *)
(***************************************************************************)
C11_IntRoundTrip ==
    (rres.op = "as_int" /\ rres.arg.major = 0)
        => rres.out = [err |-> NoError, value |-> rres.arg.value]

\* INT64_MIN came back from its nine-byte form.
C11_Witness ==
    /\ rres.op = "as_int" /\ rres.arg = [value |-> INT64_MIN, major |-> 0]
    /\ Len(Data) = 9
    /\ rres.out.value = INT64_MIN


(***************************************************************************)
(* C12: a Reader is not constructed over an input in which an item         *)
(* extends past the end of the input.                                      *)
(***************************************************************************)
C12_OverrunRejected ==
    (rres.op = "Reader" /\ rres.out.past) => rres.out.err # NoError

(***************************************************************************)
(* C16: the construction of a Reader returns or throws, whatever the       *)
(* input declares.                                                         *)
(***************************************************************************)
C16_ConstructionTerminates ==
    rres.op = "Reader" => rres.out.err # "hang"

\* A state in which a constructed Reader, or an item of it, was asked.
Answered == rres.op \in {"ask", "ask_item", "ask_entry"}
TooLarge == <<27>> \o INT64_MIN

(***************************************************************************)
(* C13, as far as it holds: an integer of magnitude 2^63 or more does not  *)
(* stop the construction; as_int() of that item is what fails.             *)
(***************************************************************************)
C13_OutOfRangeRejectedByAsInt ==
    (Answered /\ rres.arg = TooLarge) => rres.out.as_int.err = "out of int64 range"

\* C13 as stated: no Reader is constructed over an input that holds an
\* integer of magnitude 2^63 or more.
C13_OutOfRangeRejectedOnConstruction ==
    (rres.op = "Reader" /\ \E i \in 1..Len(input) : input[i] = TooLarge)
        => rres.out.err # NoError

\* C13 witness: 2^63 inside an array, constructed, then refused by as_int.
C13_Witness ==
    /\ rres.op = "ask_item" /\ rres.arg = TooLarge
    /\ rres.out.is_int /\ rres.out.as_int.err = "out of int64 range"

\* The item behind the semantic tags in front of it.
RECURSIVE Untag(_)
Untag(item) ==
    LET info == item[1] % 32
        header == IF info < 24 THEN 1 ELSE IF info = 24 THEN 2 ELSE IF info = 25 THEN 3
                  ELSE IF info = 26 THEN 5 ELSE 9
    IN  IF item # << >> /\ item[1] \div 32 = 6
        THEN Untag(SubSeq(item, header + 1, Len(item)))
        ELSE item

(***************************************************************************)
(* C14: a value behind one or more semantic tags, at the top or as an item *)
(* of an array or a map, answers every is_ and as_ accessor as the value   *)
(* without the tags does.                                                  *)
(***************************************************************************)
C14_TagsTransparent ==
    (Answered /\ rres.arg[1] \div 32 = 6)
        => rres.out = Answers(Slice(Untag(rres.arg), 0, Len(Untag(rres.arg))))

Pairs == {<<97, 97, 1>>, <<97, 97, 2>>}
TwoPairs ==
    /\ rres.op = "ask" /\ Len(input) >= 3
    /\ input[1] \in {<<162>>, <<191>>} /\ input[2] \in Pairs /\ input[3] \in Pairs

(***************************************************************************)
(* C15, as the code has it: of two pairs with the same key in a map,       *)
(* definite or indefinite, as_map() keeps the value of the first.          *)
(***************************************************************************)
C15_FirstKeyWins ==
    TwoPairs => rres.out.as_map = [err |-> NoError, value |-> (<<97>> :> <<input[2][3]>>)]

\* C15 as stated: as_map() keeps the value of the last pair with the key.
C15_LastKeyWins ==
    TwoPairs => rres.out.as_map = [err |-> NoError, value |-> (<<97>> :> <<input[3][3]>>)]

\* C15 witness: {_ "a": 1, "a": 2} answers 1 for "a".
C15_Witness ==
    /\ rres.op = "ask" /\ input = << <<191>>, <<97, 97, 1>>, <<97, 97, 2>>, <<255>> >>
    /\ rres.out.as_map.value[<<97>>] = <<1>>

(***************************************************************************)
(* C17: the sequence numbers a PointerMap holds are 0..n-1 for its n       *)
(* pointers, in the order the pointers were first added; an add() never    *)
(* changes the number of a pointer already there, and an add() of a        *)
(* pointer already there leaves the map as it was, so that the next new    *)
(* pointer still gets n.                                                   *)
(***************************************************************************)
C17_SequenceNumbers ==
    /\ DOMAIN pmap.map = SeqToSet(pmap.order)
    /\ Len(pmap.order) = Cardinality(DOMAIN pmap.map)
    /\ \A i \in 1..Len(pmap.order) : pmap.map[pmap.order[i]] = i - 1
    /\ pres.op = "add" =>
        /\ \A p \in DOMAIN pres.before : pmap.map[p] = pres.before[p]
        /\ pres.ptr \in DOMAIN pres.before =>
            /\ pmap.map = pres.before
            /\ pres.out.thrown = pmap.enable_exceptions
        /\ pres.ptr \notin DOMAIN pres.before =>
            /\ ~pres.out.thrown
            /\ pres.out.seq = Cardinality(DOMAIN pres.before)

\* C17 witness: three pointers hold 0, 1, 2 in the order they came, and an
\* add() of the first of them was just rejected.
C17_Witness ==
    /\ pmap.enable_exceptions /\ pmap.order = <<2, 1, 3>>
    /\ pres.op = "add" /\ pres.ptr = 2 /\ pres.out.thrown
    /\ pmap.map[3] = 2

Registered == {idmap.links[i].link : i \in 1..Len(idmap.links)}
Known == \A i \in 1..Len(idmap.links) : idmap.links[i].identifier \in DOMAIN idmap.nodes

(***************************************************************************)
(* C19: no link is set before restore_links() runs; restore_links() sets   *)
(* every registered link to the node registered under the link's           *)
(* identifier, whether the node was registered before or after the link,   *)
(* and fails when a link's identifier has no node.                         *)
(***************************************************************************)
C19_LinksRestoredAfterNodes ==
    /\ ~Restored => \A l \in LinkSlots : idmap.val[l] = 0
    /\ (Restored /\ Known) =>
        /\ ires.err = NoError
        /\ \A i \in 1..Len(idmap.links) :
              idmap.val[idmap.links[i].link] = idmap.nodes[idmap.links[i].identifier]
        /\ \A l \in LinkSlots \ Registered : idmap.val[l] = 0
    /\ (Restored /\ ~Known) => ires.err # NoError

\* C19 witness: two links to node 2 under identifier 1 were restored, one
\* registered before the node and one after it.
C19_Witness ==
    /\ Restored /\ ires.lang = "cpp" /\ ires.err = NoError
    /\ idmap.links = <<[link |-> 1, identifier |-> 1], [link |-> 2, identifier |-> 1]>>
    /\ idmap.nodes = (1 :> 2)
    /\ idmap.val = <<2, 2>>

(***************************************************************************)
(* C18: when a well-formed tree is serialized, a populated link writes     *)
(* under @l the number find_reachable gave the link's target, which is the *)
(* number the target writes under @i, and an empty optional link writes    *)
(* null.                                                                   *)
(***************************************************************************)
C18_LinkWritesTargetNumber ==
    (res.op = "serialize" /\ WellFormedTree(heap, res.root)) =>
        /\ res.out.err = "none"
        /\ \A s \in LinkFields(heap, res.root) :
              res.out.l[s] = IF heap[s[1]].f[s[2]] = 0 THEN Null
                             ELSE IntItem(res.out.i[heap[s[1]].f[s[2]]])

(***************************************************************************)
(* C20: on every integer or length header that the C++ or the Python       *)
(* writer emits, in its 1-, 2-, 3-, 5- or 9-byte form, the Python reader   *)
(* decodes the value the C++ reader decodes and consumes as many bytes.    *)
(***************************************************************************)
C20_PythonReadsAsCpp ==
    rres.op = "read_intlike" =>
        /\ rres.out.cpp.err = NoError
        /\ rres.out.py = rres.out.cpp

(***************************************************************************)
(* C21: a node holds at most one annotation per type.  After               *)
(* set_annotation<T>(x), has_annotation<T>() is true and                   *)
(* get_annotation<T>() returns x, whatever annotation of type T was there, *)
(* and the annotations of every other type are as before; after            *)
(* erase_annotation<T>(), has_annotation<T>() is false and                 *)
(* get_annotation<T>() fails.                                              *)
(***************************************************************************)
C21_OneAnnotationPerType ==
    LET a == annotations[ares.ob]
        others == {t \in AnnotationTypes : t # ares.T}
        Kept == /\ DOMAIN a \cap others = DOMAIN ares.before \cap others
                /\ \A t \in DOMAIN a \cap others : a[t] = ares.before[t]
    IN  /\ \A ob \in Annotatables : DOMAIN annotations[ob] \subseteq AnnotationTypes
        /\ ares.op = "set_annotation" =>
            /\ has_annotation(a, ares.T)
            /\ get_annotation(a, ares.T) = [err |-> NoError, data |-> ares.x]
            /\ Kept
        /\ ares.op = "erase_annotation" =>
            /\ ~has_annotation(a, ares.T)
            /\ get_annotation(a, ares.T).err # NoError
            /\ Kept

\* C21 witness: an annotation of type TestA is replaced while one of type
\* TestB is held.
C21_Witness ==
    /\ ares.op = "set_annotation" /\ ares.T = "TestA"
    /\ "TestA" \in DOMAIN ares.before /\ "TestB" \in DOMAIN ares.before
    /\ ares.before["TestA"].data # ares.x

(***************************************************************************)
(* Field orders, stated without the loop of all_fields.                    *)
(***************************************************************************)
\* The fields a node declares, then those its ancestors declare, nearest
\* first, each in the order of declaration.
RECURSIVE DeclaredFields(_, _)
DeclaredFields(builders, n) ==
    builders[n].fields \o
    (IF builders[n].parent = "" THEN << >> ELSE DeclaredFields(builders, builders[n].parent))

\* The position of the first field called name, 0 if there is none.
First(fields, name) ==
    IF \A i \in DOMAIN fields : fields[i].name # name THEN 0
    ELSE CHOOSE i \in DOMAIN fields :
            fields[i].name = name /\ \A j \in 1..(i - 1) : fields[j].name # name

Drop(fields, i) == SubSeq(fields, 1, i - 1) \o SubSeq(fields, i + 1, Len(fields))

\* The fields that order names, in the order named.
RECURSIVE Named(_, _)
Named(fields, order) ==
    IF order = << >> \/ First(fields, Head(order)) = 0 THEN << >>
    ELSE <<fields[First(fields, Head(order))]>>
         \o Named(Drop(fields, First(fields, Head(order))), Tail(order))

\* The fields that order does not name, in the order they have in fields.
RECURSIVE Omitted(_, _)
Omitted(fields, order) ==
    IF order = << >> \/ First(fields, Head(order)) = 0 THEN fields
    ELSE Omitted(Drop(fields, First(fields, Head(order))), Tail(order))

Occurrences(fields, f) == Cardinality({i \in DOMAIN fields : fields[i] = f})

\* The generator has emitted the node n, which has an order that names
\* fields of n or its ancestors.
Reordered(n) ==
    /\ gres.phase = "exit" /\ n \in DOMAIN gres.out
    /\ specification.builders[n].order # << >>
    /\ gres.out[n].all_fields.err = NoError

\* The fields of n and, as all_fields of its parent returned them, the
\* fields of its ancestors.
Inherited(n) ==
    specification.builders[n].fields \o
    (IF specification.builders[n].parent = "" THEN << >>
     ELSE gres.out[specification.builders[n].parent].all_fields.fields)

(***************************************************************************)
(* C22, as the code has it: when a node declares an order, all_fields()    *)
(* returns the named fields first, in the order named, followed by every   *)
(* omitted field: those the node declares in declared order, then those    *)
(* of its ancestors in the order all_fields() of the parent gives them,    *)
(* which is the parent's own order where the parent declares one.  Every   *)
(* field of the node and its ancestors appears exactly once.               *)
(***************************************************************************)
C22_OmittedFollowInParentOrder ==
    \A n \in NodeNames : Reordered(n) =>
        /\ gres.out[n].all_fields.fields =
              Named(Inherited(n), specification.builders[n].order)
              \o Omitted(Inherited(n), specification.builders[n].order)
        /\ names(Named(Inherited(n), specification.builders[n].order))
              = specification.builders[n].order
        /\ \A i \in 1..Len(gres.out[n].all_fields.fields) :
              Occurrences(gres.out[n].all_fields.fields, gres.out[n].all_fields.fields[i])
              = Occurrences(DeclaredFields(specification.builders, n),
                            gres.out[n].all_fields.fields[i])
        /\ Len(gres.out[n].all_fields.fields) = Len(DeclaredFields(specification.builders, n))

\* C22 as stated: the omitted fields, inherited ones too, follow in
\* declared order.
C22_OmittedFollowInDeclaredOrder ==
    \A n \in NodeNames : Reordered(n) =>
        gres.out[n].all_fields.fields =
            Named(DeclaredFields(specification.builders, n), specification.builders[n].order)
            \o Omitted(DeclaredFields(specification.builders, n), specification.builders[n].order)

\* C22 witness: y derives from x, both declare an order, the order of y
\* omits two fields, and all_fields() of y has returned.
C22_Witness ==
    /\ Reordered("y") /\ specification.builders["y"].parent = "x"
    /\ specification.builders["x"].order = <<"b", "a">>
    /\ specification.builders["y"].order = <<"c">>
    /\ names(gres.out["y"].all_fields.fields) = <<"c", "b", "a">>

\* cpp::generate has emitted the node n.
EmittedNode(n) ==
    gres.phase = "exit" /\ n \in DOMAIN gres.out /\ gres.out[n].all_fields.err = NoError

(***************************************************************************)
(* C23: for every node type the RecursiveVisitor visits the fields that    *)
(* hold nodes in the order in which all_fields() lists them, which is the  *)
(* order dump, equals, find_reachable, check_complete and serialize        *)
(* follow: the fields of the node and its ancestors after the reorder.     *)
(***************************************************************************)
C23_OneFieldOrder ==
    \A n \in NodeNames : EmittedNode(n) =>
        gres.out[n].visit = names(Visited(gres.out[n].all_fields.fields))

\* yyparse returned 0 with nothing reported and build() returned.
Accepted ==
    /\ gres.phase = "generate" \/ (gres.phase = "exit" /\ gres.status = 0)
    /\ gres.raised = {}

(***************************************************************************)
(* C24: in every Specification that the parser and build() accept, no node *)
(* has two fields of one name among those it declares and those it         *)
(* inherits.                                                               *)
(***************************************************************************)
C24_FieldNamesUnique ==
    Accepted =>
        \A n \in DOMAIN specification.builders :
            \A i, j \in DOMAIN DeclaredFields(specification.builders, n) :
                i # j => DeclaredFields(specification.builders, n)[i].name
                         # DeclaredFields(specification.builders, n)[j].name

\* The node-valued fields of the Specification, as <<node, index>>.
NodeValued(spec) ==
    {<<n, i>> \in (DOMAIN spec.builders) \X (1..MaxFields) :
        i <= Len(spec.builders[n].fields) /\ spec.builders[n].fields[i].type # "Prim"}

(***************************************************************************)
(* C25: build() fails when no initialize function was declared or when a   *)
(* node-valued field names a node never declared.  Otherwise it succeeds,  *)
(* every node-valued field refers to the declared node of the name it was  *)
(* written with, and the support namespace is the one the schema set or,   *)
(* if it set none, the default.                                            *)
(***************************************************************************)
C25_BuildResolves ==
    [][Build =>
        IF \/ specification.initialize_function = ""
           \/ \E f \in NodeValued(specification) :
                 specification.builders[f[1]].fields[f[2]].prim_type
                     \notin DOMAIN specification.builders
        THEN gres'.phase = "exit" /\ gres'.status # 0 /\ gres'.raised # gres.raised
        ELSE /\ gres'.phase = "generate" /\ gres'.raised = gres.raised
             /\ DOMAIN specification'.builders = DOMAIN specification.builders
             /\ \A f \in NodeValued(specification) :
                   /\ specification'.builders[f[1]].fields[f[2]].node_type
                         = specification.builders[f[1]].fields[f[2]].prim_type
                   /\ specification'.builders[f[1]].fields[f[2]].node_type
                         \in DOMAIN specification'.builders
             /\ specification'.support_namespace =
                   IF specification.support_namespace = "" THEN "::tree"
                   ELSE specification.support_namespace]_vars

\* C25 witness: build() has returned for a schema with a field of a
\* declared node and without a support namespace.
C25_Witness ==
    /\ gres.phase = "generate"
    /\ specification.support_namespace = "::tree"
    /\ \E f \in NodeValued(specification) :
          specification.builders[f[1]].fields[f[2]].node_type = "x"

(***************************************************************************)
(* C26: the generator exits with a nonzero status whenever an error was    *)
(* raised while parsing, analysing or emitting, and with zero only when    *)
(* none was.                                                               *)
(***************************************************************************)
C26_NonzeroOnError ==
    gres.phase = "exit" => (gres.status = 0 <=> gres.raised = {})

\* The type name and its ancestors, nearest first.
RECURSIVE Lineage(_)
Lineage(name) ==
    <<name>> \o (IF specification.builders[name].parent = "" THEN << >>
                 ELSE Lineage(specification.builders[name].parent))

\* The position in the lineage of the first type whose method the Visitor
\* overrides, 0 if it overrides none of them.
FirstOverride(lineage, overridden) ==
    IF \A i \in DOMAIN lineage : lineage[i] \notin overridden THEN 0
    ELSE CHOOSE i \in DOMAIN lineage :
            lineage[i] \in overridden /\ \A j \in 1..(i - 1) : lineage[j] \notin overridden

(***************************************************************************)
(* C27: when the Visitor overrides none of the methods of the type of the  *)
(* node and its ancestors, visiting the node calls the method of the type, *)
(* then that of each ancestor from nearest to furthest, and at the end     *)
(* visit_node, once.  When it overrides the method of one of them, the     *)
(* calls end with the nearest overridden one and visit_node is not called. *)
(***************************************************************************)
C27_VisitFallsBack ==
    vres # NotVisited =>
        IF FirstOverride(Lineage(vres.node), vres.overridden) = 0
        THEN vres.calls = Lineage(vres.node) \o <<visit_node>>
        ELSE vres.calls = SubSeq(Lineage(vres.node), 1,
                                 FirstOverride(Lineage(vres.node), vres.overridden))

\* C27 witness: a node of a type with two ancestors has been visited by a
\* Visitor that overrides nothing, and visit_node was reached.
C27_Witness ==
    /\ vres.node = "z" /\ vres.overridden = {}
    /\ vres.calls = <<"z", "y", "x", visit_node>>

\* The nodes that node n refers to, by an owning edge or a link.
RefersTo(h, n) ==
    UNION {SeqToSet(EdgeTargets(Kind(h, n, i), h[n].f[i])) : i \in 1..Len(FieldsOf(h, n))}

RECURSIVE AnyReach(_, _)
AnyReach(h, S) ==
    LET T == S \cup UNION {RefersTo(h, n) : n \in S}
    IN  IF T = S THEN S ELSE AnyReach(h, T)

\* The owning edges among the nodes of the tree of root, the targets of its
\* links included, form no cycle.
OwningEdgesFinite(h, root) ==
    \A n \in AnyReach(h, {root}) : n \notin OwnReach(h, OwnedBy(h, n))

\* Some link leads, directly or through further links, back to its node.
LinkCycle(h) ==
    \E n \in Nodes(h) : \E i \in 1..Len(FieldsOf(h, n)) :
        /\ IsLink(Kind(h, n, i)) /\ h[n].f[i] # 0
        /\ n \in AnyReach(h, {h[n].f[i]})

ValueKinds == {"null", "bool", "int", "float", "string", "binary", "array", "map"}
IsKind(a, k) ==
    CASE k = "null" -> a.is_null [] k = "bool" -> a.is_bool [] k = "int" -> a.is_int
      [] k = "float" -> a.is_float [] k = "string" -> a.is_string
      [] k = "binary" -> a.is_binary [] k = "array" -> a.is_array [] k = "map" -> a.is_map
AsKind(a, k) ==
    CASE k = "null" -> a.as_null.err [] k = "bool" -> a.as_bool.err [] k = "int" -> a.as_int.err
      [] k = "float" -> a.as_float.err [] k = "string" -> a.as_string.err
      [] k = "binary" -> a.as_binary.err [] k = "array" -> a.as_array.err
      [] k = "map" -> a.as_map.err

(***************************************************************************)
(* C29: when constructing a Reader succeeded, then for the whole input and *)
(* for every item taken out of it through as_array() or as_map() exactly   *)
(* one is_<kind>() is true and the as_<kind>() of that kind returns        *)
(* without an error.                                                       *)
(***************************************************************************)
C29_ValidationSufficient ==
    Answered =>
        \E k \in ValueKinds :
            /\ IsKind(rres.out, k) /\ AsKind(rres.out, k) = NoError
            /\ \A j \in ValueKinds \ {k} : ~IsKind(rres.out, j)

\* The handle was destroyed or moved from, or its structure was closed:
\* its id is on the stack no more.
Released(hi) ==
    \/ ~handles[hi].alive
    \/ ~handles[hi].writer
    \/ \A i \in 1..Len(stack) : stack[i] # handles[hi].id

Bytes(bs, S) == Cardinality({i \in 1..Len(bs) : bs[i] \in S})

(***************************************************************************)
(* C30: once every handle obtained from the Writer has been closed,        *)
(* destroyed or moved from, in whatever order, the stack of the Writer is  *)
(* empty, so that start() may be called again, and the stream holds one    *)
(* break for every array or map header.                                    *)
(***************************************************************************)
C30_ReleasedLeavesStackEmpty ==
    (handles # << >> /\ \A hi \in 1..Len(handles) : Released(hi)) =>
        /\ stack = << >>
        /\ Bytes(stream, {255}) = Bytes(stream, {159, 191})

====
